---- MODULE Spec2Model ----
(***************************************************************************)
(* Model of the deterministic masternode (DMN) state synchronisation code  *)
(* of rust-dashcore-rpc, json/src/lib.rs: the DMNState differ              *)
(* (compare_to_newer_dmn_state / compare_to_older_dmn_state), the applier  *)
(* (apply_diff) and the serde decoders of the PoSe height fields           *)
(* (deserialize_u32_opt / deserialize_u32_2opt).                           *)
(*                                                                         *)
(* Rust's Option<T> is modelled as a sequence of length at most one:       *)
(* None is <<>> and Some(x) is <<x>>, so Option<Option<T>> has the three   *)
(* values <<>>, << <<>> >> and << <<x>> >>.                                *)
(*                                                                         *)
(* An i64 is modelled at its full width as four 16-bit limbs in two's      *)
(* complement, least significant limb first; a u32 is its two low limbs.   *)
(***************************************************************************)
EXTENDS Integers, Sequences, FiniteSets, TLC

\* ------------------------------------------------------------------ bounds
\* number of distinct values of every attribute of a node state
NumVals == 2
\* number of attributes in which the initial node state departs from BaseState
MaxInitChanged == 1
\* number of attributes in which the compared-to node state departs from BaseState
MaxOtherChanged == 1
\* number of slots of an applied difference that are not unchanged
MaxSlots == 1
\* number of keys present in a wire object of a node state difference
MaxKeys == 2

\* ------------------------------------------------------------------ Option
None == <<>>
Some(x) == <<x>>
IsSome(o) == o # <<>>
Unwrap(o) == o[1]

\* ------------------------------------------------------------------ DMNState
\* attributes of DMNState that are not optional
PlainFields ==
  {"service", "registered_height", "revocation_reason", "owner_address",
   "voting_address", "payout_address", "pub_key_operator"}

\* attributes of DMNState of type Option<T>
OptionFields ==
  {"pose_revived_height", "pose_ban_height", "operator_payout_address",
   "platform_node_id", "platform_p2p_port", "platform_http_port"}

StateFields == PlainFields \cup OptionFields

Vals == 1..NumVals
OptVals == {None} \cup {Some(v) : v \in Vals}

StateDom == [f \in StateFields |-> IF f \in PlainFields THEN Vals ELSE OptVals]

BaseState ==
  [service |-> 1, registered_height |-> 1, pose_revived_height |-> None,
   pose_ban_height |-> None, revocation_reason |-> 1, owner_address |-> 1,
   voting_address |-> 1, payout_address |-> 1, pub_key_operator |-> 1,
   operator_payout_address |-> None, platform_node_id |-> None,
   platform_p2p_port |-> None, platform_http_port |-> None]

\* the records that depart from base in at most k of the given fields
RECURSIVE Ball(_, _, _, _)
Ball(base, fields, dom, k) ==
  IF k = 0 THEN {base}
  ELSE LET B == Ball(base, fields, dom, k - 1)
           changes == UNION {{<<f, v>> : v \in dom[f]} : f \in fields}
       IN  B \cup {[s EXCEPT ![c[1]] = c[2]] : s \in B, c \in changes}

InitStates == Ball(BaseState, StateFields, StateDom, MaxInitChanged)
OtherStates == Ball(BaseState, StateFields, StateDom, MaxOtherChanged)

\* ------------------------------------------------------------------ DMNStateDiff
\* slots of type Option<T>
SingleSlots ==
  {"service", "registered_height", "last_paid_height", "consecutive_payments",
   "pose_penalty", "pose_revived_height", "revocation_reason", "owner_address",
   "voting_address", "payout_address", "pub_key_operator", "platform_node_id",
   "platform_p2p_port", "platform_http_port"}

\* slots of type Option<Option<T>>
TriSlots == {"pose_ban_height", "operator_payout_address"}

DiffSlots == SingleSlots \cup TriSlots

DiffDom ==
  [f \in DiffSlots |->
     IF f \in SingleSlots THEN {Some(v) : v \in Vals}
     ELSE {Some(o) : o \in OptVals}]

EmptyDiff ==
  [service |-> None, registered_height |-> None, last_paid_height |-> None,
   consecutive_payments |-> None, pose_penalty |-> None,
   pose_revived_height |-> None, pose_ban_height |-> None,
   revocation_reason |-> None, owner_address |-> None, voting_address |-> None,
   payout_address |-> None, pub_key_operator |-> None,
   operator_payout_address |-> None, platform_node_id |-> None,
   platform_p2p_port |-> None, platform_http_port |-> None]

Diffs == Ball(EmptyDiff, DiffSlots, DiffDom, MaxSlots)

\* ------------------------------------------------------------------ differ
\* the has_diff flag of compare_to_newer_dmn_state
has_diff(self, newer) ==
  \/ self.service # newer.service
  \/ self.registered_height # newer.registered_height
  \/ self.pose_revived_height # newer.pose_revived_height
  \/ self.pose_ban_height # newer.pose_ban_height
  \/ self.revocation_reason # newer.revocation_reason
  \/ self.owner_address # newer.owner_address
  \/ self.voting_address # newer.voting_address
  \/ self.payout_address # newer.payout_address
  \/ self.pub_key_operator # newer.pub_key_operator
  \/ self.operator_payout_address # newer.operator_payout_address
  \/ self.platform_node_id # newer.platform_node_id
  \/ self.platform_p2p_port # newer.platform_p2p_port
  \/ self.platform_http_port # newer.platform_http_port

\* the DMNStateDiff literal built by compare_to_newer_dmn_state
diff_literal(self, newer) ==
  [service |->
     IF self.service # newer.service THEN Some(newer.service) ELSE None,
   registered_height |->
     IF self.registered_height # newer.registered_height
       THEN Some(newer.registered_height) ELSE None,
   last_paid_height |-> None,
   consecutive_payments |-> None,
   pose_penalty |-> None,
   pose_revived_height |->
     IF self.pose_revived_height # newer.pose_revived_height
       THEN newer.pose_revived_height ELSE None,
   pose_ban_height |->
     IF self.pose_ban_height # newer.pose_ban_height
       THEN Some(newer.pose_ban_height) ELSE None,
   revocation_reason |->
     IF self.revocation_reason # newer.revocation_reason
       THEN Some(newer.revocation_reason) ELSE None,
   owner_address |->
     IF self.owner_address # newer.owner_address
       THEN Some(newer.owner_address) ELSE None,
   voting_address |->
     IF self.voting_address # newer.voting_address
       THEN Some(newer.voting_address) ELSE None,
   payout_address |->
     IF self.payout_address # newer.payout_address
       THEN Some(newer.payout_address) ELSE None,
   pub_key_operator |->
     IF self.pub_key_operator # newer.pub_key_operator
       THEN Some(newer.pub_key_operator) ELSE None,
   operator_payout_address |->
     IF self.operator_payout_address # newer.operator_payout_address
       THEN Some(newer.operator_payout_address) ELSE None,
   platform_node_id |->
     IF self.platform_node_id # newer.platform_node_id
       THEN newer.platform_node_id ELSE None,
   platform_p2p_port |->
     IF self.platform_p2p_port # newer.platform_p2p_port
       THEN newer.platform_p2p_port ELSE None,
   platform_http_port |->
     IF self.platform_http_port # newer.platform_http_port
       THEN newer.platform_http_port ELSE None]

\* mutant: the differ synthesises a PoSe penalty instead of leaving the slot out
compare_to_newer_fills_pose_penalty(self, newer) ==
  IF has_diff(self, newer)
    THEN Some([diff_literal(self, newer) EXCEPT !.pose_penalty = Some(1)])
    ELSE None

\* mutant: the differ returns its literal even when nothing differs
compare_to_newer_always_some(self, newer) ==
  Some(diff_literal(self, newer))

compare_to_newer_dmn_state(self, newer) ==
  IF has_diff(self, newer) THEN Some(diff_literal(self, newer)) ELSE None

\* mutant: the reverse differ forgets to swap its arguments
compare_to_older_unswapped(self, older) ==
  compare_to_newer_dmn_state(self, older)

compare_to_older_dmn_state(self, older) ==
  compare_to_newer_dmn_state(older, self)

\* ------------------------------------------------------------------ applier
\* mutant: a cleared PoSe-ban slot is treated like an unchanged one
apply_diff_keeps_on_clear(self, diff) ==
  [self EXCEPT
     !.pose_revived_height = diff.pose_revived_height,
     !.pose_ban_height =
        IF IsSome(diff.pose_ban_height) /\ IsSome(Unwrap(diff.pose_ban_height))
          THEN Unwrap(diff.pose_ban_height) ELSE @,
     !.pub_key_operator =
        IF IsSome(diff.pub_key_operator) THEN Unwrap(diff.pub_key_operator) ELSE @,
     !.service =
        IF IsSome(diff.service) THEN Unwrap(diff.service) ELSE @,
     !.revocation_reason =
        IF IsSome(diff.revocation_reason) THEN Unwrap(diff.revocation_reason) ELSE @,
     !.owner_address =
        IF IsSome(diff.owner_address) THEN Unwrap(diff.owner_address) ELSE @,
     !.voting_address =
        IF IsSome(diff.voting_address) THEN Unwrap(diff.voting_address) ELSE @,
     !.payout_address =
        IF IsSome(diff.payout_address) THEN Unwrap(diff.payout_address) ELSE @,
     !.operator_payout_address =
        IF IsSome(diff.operator_payout_address)
          THEN Unwrap(diff.operator_payout_address) ELSE @,
     !.platform_node_id =
        IF IsSome(diff.platform_node_id)
          THEN Some(Unwrap(diff.platform_node_id)) ELSE @,
     !.platform_p2p_port =
        IF IsSome(diff.platform_p2p_port)
          THEN Some(Unwrap(diff.platform_p2p_port)) ELSE @,
     !.platform_http_port =
        IF IsSome(diff.platform_http_port)
          THEN Some(Unwrap(diff.platform_http_port)) ELSE @]

\* mutant: platform_http_port is combined with Option::xor instead of assigned
apply_diff_xor_http_port(self, diff) ==
  [self EXCEPT
     !.pose_revived_height = diff.pose_revived_height,
     !.pose_ban_height =
        IF IsSome(diff.pose_ban_height) THEN Unwrap(diff.pose_ban_height) ELSE @,
     !.pub_key_operator =
        IF IsSome(diff.pub_key_operator) THEN Unwrap(diff.pub_key_operator) ELSE @,
     !.service =
        IF IsSome(diff.service) THEN Unwrap(diff.service) ELSE @,
     !.revocation_reason =
        IF IsSome(diff.revocation_reason) THEN Unwrap(diff.revocation_reason) ELSE @,
     !.owner_address =
        IF IsSome(diff.owner_address) THEN Unwrap(diff.owner_address) ELSE @,
     !.voting_address =
        IF IsSome(diff.voting_address) THEN Unwrap(diff.voting_address) ELSE @,
     !.payout_address =
        IF IsSome(diff.payout_address) THEN Unwrap(diff.payout_address) ELSE @,
     !.operator_payout_address =
        IF IsSome(diff.operator_payout_address)
          THEN Unwrap(diff.operator_payout_address) ELSE @,
     !.platform_node_id =
        IF IsSome(diff.platform_node_id)
          THEN Some(Unwrap(diff.platform_node_id)) ELSE @,
     !.platform_p2p_port =
        IF IsSome(diff.platform_p2p_port)
          THEN Some(Unwrap(diff.platform_p2p_port)) ELSE @,
     !.platform_http_port =
        IF IsSome(diff.platform_http_port)
          THEN (IF IsSome(@) THEN None ELSE Some(Unwrap(diff.platform_http_port)))
          ELSE @]

apply_diff(self, diff) ==
  [self EXCEPT
     !.pose_revived_height = diff.pose_revived_height,
     !.pose_ban_height =
        IF IsSome(diff.pose_ban_height) THEN Unwrap(diff.pose_ban_height) ELSE @,
     !.pub_key_operator =
        IF IsSome(diff.pub_key_operator) THEN Unwrap(diff.pub_key_operator) ELSE @,
     !.service =
        IF IsSome(diff.service) THEN Unwrap(diff.service) ELSE @,
     !.revocation_reason =
        IF IsSome(diff.revocation_reason) THEN Unwrap(diff.revocation_reason) ELSE @,
     !.owner_address =
        IF IsSome(diff.owner_address) THEN Unwrap(diff.owner_address) ELSE @,
     !.voting_address =
        IF IsSome(diff.voting_address) THEN Unwrap(diff.voting_address) ELSE @,
     !.payout_address =
        IF IsSome(diff.payout_address) THEN Unwrap(diff.payout_address) ELSE @,
     !.operator_payout_address =
        IF IsSome(diff.operator_payout_address)
          THEN Unwrap(diff.operator_payout_address) ELSE @,
     !.platform_node_id =
        IF IsSome(diff.platform_node_id)
          THEN Some(Unwrap(diff.platform_node_id)) ELSE @,
     !.platform_p2p_port =
        IF IsSome(diff.platform_p2p_port)
          THEN Some(Unwrap(diff.platform_p2p_port)) ELSE @,
     !.platform_http_port =
        IF IsSome(diff.platform_http_port)
          THEN Some(Unwrap(diff.platform_http_port)) ELSE @]

\* ------------------------------------------------------------------ wire values
\* Result<T, E>: Ok(x) or an error
Ok(x) == [ok |-> TRUE, val |-> x]
Err == [ok |-> FALSE, val |-> <<>>]

\* a 16-bit limb ranges over 0 .. LimbBase - 1; a limb of at least SignLimb in
\* the most significant position makes an i64 negative
LimbBase == 65536
SignLimb == 32768

\* i64 values of the wire, four limbs each, least significant first
MinusOne == <<65535, 65535, 65535, 65535>>
I64Samples ==
  {<<a, b, c, d>> : a \in {0, 1, LimbBase - 2, LimbBase - 1},
                    b \in {0, LimbBase - 1},
                    c \in {0, 1, LimbBase - 1},
                    d \in {0, SignLimb, LimbBase - 1}}

\* the value found under a key of a JSON object: the key is absent, the value
\* is an integer that fits an i64, or it is anything else (null, a string, a
\* float, an integer outside the i64 range)
Absent == [kind |-> "absent", val |-> <<>>]
WireInt(v) == [kind |-> "int", val |-> v]
NotI64 == [kind |-> "other", val |-> <<>>]

WireValues == {Absent, NotI64} \cup {WireInt(v) : v \in I64Samples}

\* the two PoSe height keys of a wire object
PoSeKeys == {"PoSeRevivedHeight", "PoSeBanHeight"}
WireObjects == [PoSeKeys -> WireValues]
EmptyWire == [k \in PoSeKeys |-> Absent]

\* ------------------------------------------------------------------ decoders
\* i64::deserialize
i64_deserialize(w) == IF w.kind = "int" THEN Ok(w.val) ELSE Err

\* val < 0 on an i64
is_negative(val) == val[4] >= SignLimb

\* val as u32: the low 32 bits
as_u32(val) == <<val[1], val[2]>>

\* mutant: the sign test is off by one (val <= 0)
deserialize_u32_opt_zero_is_none(w) ==
  LET r == i64_deserialize(w)
  IN  IF ~r.ok THEN Err
      ELSE IF is_negative(r.val) \/ r.val = <<0, 0, 0, 0>> THEN Ok(None)
      ELSE Ok(Some(as_u32(r.val)))

deserialize_u32_opt(w) ==
  LET r == i64_deserialize(w)
  IN  IF ~r.ok THEN Err
      ELSE IF is_negative(r.val) THEN Ok(None)
      ELSE Ok(Some(as_u32(r.val)))

deserialize_u32_2opt(w) ==
  LET r == i64_deserialize(w)
  IN  IF ~r.ok THEN Err
      ELSE IF is_negative(r.val) THEN Ok(Some(None))
      ELSE Ok(Some(Some(as_u32(r.val))))

\* #[serde(default, deserialize_with = "deserialize_u32_opt")]: an absent key
\* takes Default::default(), a present one goes through the function
default_u32_opt(w) == IF w = Absent THEN Ok(None) ELSE deserialize_u32_opt(w)

\* #[serde(default, deserialize_with = "deserialize_u32_2opt")]
default_u32_2opt(w) == IF w = Absent THEN Ok(None) ELSE deserialize_u32_2opt(w)

\* the PoSe height fields of a decoded DMNState; the first failing field
\* fails the whole object
decode_state_pose(o) ==
  LET revived == default_u32_opt(o.PoSeRevivedHeight)
      ban == default_u32_opt(o.PoSeBanHeight)
  IN  IF revived.ok /\ ban.ok
        THEN Ok([pose_revived_height |-> revived.val, pose_ban_height |-> ban.val])
        ELSE Err

\* the PoSe height slots of a decoded DMNStateDiff: DMNStateDiffIntermediate
\* decodes them and TryFrom copies them into the DMNStateDiff as they are
decode_diff_pose(o) ==
  LET revived == default_u32_opt(o.PoSeRevivedHeight)
      ban == default_u32_2opt(o.PoSeBanHeight)
  IN  IF revived.ok /\ ban.ok
        THEN Ok([pose_revived_height |-> revived.val, pose_ban_height |-> ban.val])
        ELSE Err

\* the decoder the difference context uses for a key
diff_field(k, w) ==
  IF k = "PoSeRevivedHeight" THEN default_u32_opt(w) ELSE default_u32_2opt(w)

\* the field of the decoded object that a key fills
SlotOf(k) ==
  IF k = "PoSeRevivedHeight" THEN "pose_revived_height" ELSE "pose_ban_height"

\* ------------------------------------------------------------------ errors and strings
\* an error value: the variant that was constructed, the name of the offending
\* field and the raw wire value when the error carries them, and the other
\* members of the variant
ErrorValue(variant, field, raw, detail) ==
  [variant |-> variant, field |-> field, raw |-> raw, detail |-> detail]
Fail(e) == [ok |-> FALSE, val |-> e]

\* a byte string of the given length; id tells apart two strings of one length
Bytes(len, id) == [len |-> len, id |-> id]

\* a JSON string, by what the parsers make of it: the text of an address with
\* the given payload ("address"), the hex text of the given bytes ("hex"), the
\* text of a socket address ("socket"), or none of these ("text")
WireStr(form, bytes) == [kind |-> "str", val |-> <<form, bytes>>]
form_of(s) == s[1]
bytes_of(s) == s[2]
WireNull == [kind |-> "null", val |-> <<>>]

One == <<1, 0, 0, 0>>
MinusTwo == <<65534, 65535, 65535, 65535>>
TwoPow32 == <<0, 0, 1, 0>>

\* the length of [u8; 20]
AddressLen == 20

\* serde's own error for a value of the wrong type or range: its message
\* quotes the unexpected value and names no field
serde_invalid(w) == ErrorValue("serde::invalid", None, Some(w), <<>>)

\* serde's error for a required key that is absent
serde_missing(k) == ErrorValue("serde::missing_field", Some(k), None, <<>>)

\* encode::Error::InvalidVectorSize { expected: 20, actual }
invalid_vector_size(actual) ==
  ErrorValue("InvalidVectorSize", None, None, <<AddressLen, actual>>)

\* encode::Error::Hex(InvalidChar(0))
hex_invalid_char == ErrorValue("Hex(InvalidChar(0))", None, None, <<>>)

\* D::Error::custom(ArrayConversionError(v))
array_conversion_error(v) ==
  ErrorValue("ArrayConversionError", None, Some([kind |-> "bytes", val |-> <<v>>]), <<>>)

\* D::Error::custom(CustomAddressError(err)) and encode::Error::from(address::Error)
address_error(s) ==
  ErrorValue("address::Error", None, Some([kind |-> "str", val |-> s]), <<>>)

\* D::Error::custom(HexError(err))
hex_error(s) == ErrorValue("HexError", None, Some([kind |-> "str", val |-> s]), <<>>)

\* Address::from_str(s) followed by payload_to_vec()
Address_from_str(s) ==
  IF form_of(s) = "address" THEN Ok(bytes_of(s)) ELSE Fail(address_error(s))

\* hex::decode(s)
hex_decode(s) == IF form_of(s) = "hex" THEN Ok(bytes_of(s)) ELSE Fail(hex_error(s))

\* mutant: the payload is accepted whatever its length
payload_to_array_any_length(v) == Ok(v)

\* address.payload_to_vec().try_into().map_err(|_| InvalidVectorSize {..})
payload_to_array(v) ==
  IF v.len = AddressLen THEN Ok(v) ELSE Fail(invalid_vector_size(v.len))

\* v.clone().try_into() with Err(_) => ArrayConversionError(v)
vec_to_array(v) ==
  IF v.len = AddressLen THEN Ok(v) ELSE Fail(array_conversion_error(v))

\* ------------------------------------------------------------------ serde primitives
\* mutant: an absent key is read as the default number instead of None
option_u32_absent_is_zero(w) ==
  IF w.kind \in {"absent", "null"} THEN Ok(Some(<<0, 0>>))
  ELSE IF w.kind = "int" /\ w.val[3] = 0 /\ w.val[4] = 0 THEN Ok(Some(as_u32(w.val)))
  ELSE Fail(serde_invalid(w))

\* Option<u32>::deserialize
option_u32(w) ==
  IF w.kind \in {"absent", "null"} THEN Ok(None)
  ELSE IF w.kind = "int" /\ w.val[3] = 0 /\ w.val[4] = 0 THEN Ok(Some(as_u32(w.val)))
  ELSE Fail(serde_invalid(w))

\* u32::deserialize of a required key
required_u32(k, w) ==
  IF w.kind = "absent" THEN Fail(serde_missing(k))
  ELSE IF w.kind = "int" /\ w.val[3] = 0 /\ w.val[4] = 0 THEN Ok(as_u32(w.val))
  ELSE Fail(serde_invalid(w))

\* Option<i32>::deserialize
option_i32(w) ==
  IF w.kind \in {"absent", "null"} THEN Ok(None)
  ELSE IF /\ w.kind = "int"
          /\ \/ w.val[3] = 0 /\ w.val[4] = 0 /\ w.val[2] < SignLimb
             \/ w.val[3] = LimbBase - 1 /\ w.val[4] = LimbBase - 1 /\ w.val[2] >= SignLimb
    THEN Ok(Some(as_u32(w.val)))
  ELSE Fail(serde_invalid(w))

\* Option<String>::deserialize
option_string(w) ==
  IF w.kind \in {"absent", "null"} THEN Ok(None)
  ELSE IF w.kind = "str" THEN Ok(Some(w.val))
  ELSE Fail(serde_invalid(w))

\* Option<SocketAddr>::deserialize
option_socket(w) ==
  IF w.kind \in {"absent", "null"} THEN Ok(None)
  ELSE IF w.kind = "str" /\ form_of(w.val) = "socket" THEN Ok(Some(bytes_of(w.val)))
  ELSE Fail(serde_invalid(w))

\* #[serde_as(as = "DisplayFromStr")] SocketAddr of a required key
required_socket(k, w) ==
  IF w.kind = "absent" THEN Fail(serde_missing(k))
  ELSE IF w.kind = "str" /\ form_of(w.val) = "socket" THEN Ok(bytes_of(w.val))
  ELSE Fail(serde_invalid(w))

\* the i64 decoders of the PoSe heights, with serde's error made explicit
with_serde_error(r, w) == IF r.ok THEN r ELSE Fail(serde_invalid(w))

\* #[serde(default, deserialize_with = "deserialize_hex_opt")]
deserialize_hex_opt(w) ==
  IF w.kind = "absent" THEN Ok(None)
  ELSE IF w.kind # "str" THEN Fail(serde_invalid(w))
  ELSE LET v == hex_decode(w.val) IN IF v.ok THEN Ok(Some(v.val)) ELSE v

\* #[serde(with = "hex")] Vec<u8> of a required key
required_hex(k, w) ==
  IF w.kind = "absent" THEN Fail(serde_missing(k))
  ELSE IF w.kind # "str" THEN Fail(serde_invalid(w))
  ELSE hex_decode(w.val)

\* deserialize_address of a required key
deserialize_address(k, w) ==
  IF w.kind = "absent" THEN Fail(serde_missing(k))
  ELSE IF w.kind # "str" THEN Fail(serde_invalid(w))
  ELSE LET a == Address_from_str(w.val)
       IN  IF a.ok THEN vec_to_array(a.val) ELSE a

\* #[serde(default, deserialize_with = "deserialize_address_optional")]
deserialize_address_optional(w) ==
  IF w.kind \in {"absent", "null"} THEN Ok(None)
  ELSE IF w.kind # "str" THEN Fail(serde_invalid(w))
  ELSE LET a == Address_from_str(w.val)
           v == IF a.ok THEN vec_to_array(a.val) ELSE a
       IN  IF v.ok THEN Ok(Some(v.val)) ELSE v

\* #[serde(default, deserialize_with = "deserialize_hex_to_address_optional")]
deserialize_hex_to_address_optional(w) ==
  IF w.kind = "absent" THEN Ok(None)
  ELSE IF w.kind # "str" THEN Fail(serde_invalid(w))
  ELSE LET h == hex_decode(w.val)
           v == IF h.ok THEN vec_to_array(h.val) ELSE h
       IN  IF v.ok THEN Ok(Some(v.val)) ELSE v

\* ------------------------------------------------------------------ DMNStateDiff decoder
\* the keys DMNStateDiffIntermediate reads
DiffKeys ==
  {"service", "registeredHeight", "lastPaidHeight", "consecutivePayments",
   "PoSePenalty", "PoSeRevivedHeight", "PoSeBanHeight", "revocationReason",
   "ownerAddress", "votingAddress", "platformNodeID", "platformP2PPort",
   "platformHTTPPort", "payoutAddress", "pubKeyOperator"}

\* keys of a wire difference object: DiffKeys and a key the struct does not
\* declare, which serde skips
WireDiffKeys == DiffKeys \cup {"operatorPayoutAddress"}

\* one field of DMNStateDiffIntermediate
intermediate_field(k, w) ==
  CASE k = "service" -> option_socket(w)
    [] k \in {"registeredHeight", "lastPaidHeight", "PoSePenalty", "revocationReason",
              "platformP2PPort", "platformHTTPPort"} -> option_u32(w)
    [] k = "consecutivePayments" -> option_i32(w)
    [] k = "PoSeRevivedHeight" -> with_serde_error(default_u32_opt(w), w)
    [] k = "PoSeBanHeight" -> with_serde_error(default_u32_2opt(w), w)
    [] k \in {"ownerAddress", "votingAddress", "platformNodeID", "payoutAddress"} ->
         option_string(w)
    [] k = "pubKeyOperator" -> deserialize_hex_opt(w)

\* the address closures of TryFrom<DMNStateDiffIntermediate>: Address::from_str,
\* then the payload converted to [u8; 20]
try_from_address(o) ==
  IF o = None THEN Ok(None)
  ELSE LET a == Address_from_str(Unwrap(o))
           v == IF a.ok THEN payload_to_array(a.val) ELSE a
       IN  IF v.ok THEN Ok(Some(v.val)) ELSE v

\* the platform_node_id closure of TryFrom<DMNStateDiffIntermediate>
try_from_platform_node_id(o) ==
  IF o = None THEN Ok(None)
  ELSE LET h == hex_decode(Unwrap(o))
           v == IF h.ok THEN payload_to_array(h.val) ELSE Fail(hex_invalid_char)
       IN  IF v.ok THEN Ok(Some(v.val)) ELSE v

\* mutant: the operator payout slot is filled from the payout address
try_from_copies_payout(i) ==
  LET owner == try_from_address(i.ownerAddress)
      voting == try_from_address(i.votingAddress)
      payout == try_from_address(i.payoutAddress)
      node_id == try_from_platform_node_id(i.platformNodeID)
  IN  IF ~owner.ok THEN owner
      ELSE IF ~voting.ok THEN voting
      ELSE IF ~payout.ok THEN payout
      ELSE IF ~node_id.ok THEN node_id
      ELSE Ok([service |-> i.service,
               registered_height |-> i.registeredHeight,
               last_paid_height |-> i.lastPaidHeight,
               consecutive_payments |-> i.consecutivePayments,
               pose_penalty |-> i.PoSePenalty,
               pose_revived_height |-> i.PoSeRevivedHeight,
               pose_ban_height |-> i.PoSeBanHeight,
               revocation_reason |-> i.revocationReason,
               owner_address |-> owner.val,
               voting_address |-> voting.val,
               payout_address |-> payout.val,
               pub_key_operator |-> i.pubKeyOperator,
               operator_payout_address |-> payout.val,
               platform_node_id |-> node_id.val,
               platform_p2p_port |-> i.platformP2PPort,
               platform_http_port |-> i.platformHTTPPort])

\* TryFrom<DMNStateDiffIntermediate> for DMNStateDiff
try_from(i) ==
  LET owner == try_from_address(i.ownerAddress)
      voting == try_from_address(i.votingAddress)
      payout == try_from_address(i.payoutAddress)
      node_id == try_from_platform_node_id(i.platformNodeID)
  IN  IF ~owner.ok THEN owner
      ELSE IF ~voting.ok THEN voting
      ELSE IF ~payout.ok THEN payout
      ELSE IF ~node_id.ok THEN node_id
      ELSE Ok([service |-> i.service,
               registered_height |-> i.registeredHeight,
               last_paid_height |-> i.lastPaidHeight,
               consecutive_payments |-> i.consecutivePayments,
               pose_penalty |-> i.PoSePenalty,
               pose_revived_height |-> i.PoSeRevivedHeight,
               pose_ban_height |-> i.PoSeBanHeight,
               revocation_reason |-> i.revocationReason,
               owner_address |-> owner.val,
               voting_address |-> voting.val,
               payout_address |-> payout.val,
               pub_key_operator |-> i.pubKeyOperator,
               operator_payout_address |-> None,
               platform_node_id |-> node_id.val,
               platform_p2p_port |-> i.platformP2PPort,
               platform_http_port |-> i.platformHTTPPort])

\* the results serde_json::from_value::<DMNStateDiff>(o) can give. serde reads
\* the keys in the order of the document and stops at the first field that
\* fails, so with several malformed fields the error is that of any of them;
\* try_from runs only when every field was read.
decode_diff(o) ==
  LET failed == {k \in DiffKeys : ~intermediate_field(k, o[k]).ok}
  IN  IF failed # {}
        THEN {intermediate_field(k, o[k]) : k \in failed}
        ELSE {try_from([k \in DiffKeys |-> intermediate_field(k, o[k]).val])}

\* the values a key takes in the enumerated wire difference objects
U32Wire == {WireInt(One), WireInt(MinusOne), WireNull}
AddressWire ==
  {WireStr("address", Bytes(AddressLen, 1)), WireStr("address", Bytes(32, 1)),
   WireStr("text", Bytes(0, 0)), WireInt(One), WireNull}
WireDiffDom ==
  [k \in WireDiffKeys |->
     CASE k = "service" ->
            {WireStr("socket", Bytes(6, 1)), WireStr("text", Bytes(0, 0))}
       [] k \in {"registeredHeight", "lastPaidHeight", "PoSePenalty",
                 "revocationReason", "platformP2PPort", "platformHTTPPort"} -> U32Wire
       [] k = "consecutivePayments" ->
            {WireInt(One), WireInt(MinusOne), WireInt(TwoPow32)}
       [] k \in PoSeKeys ->
            {WireInt(One), WireInt(MinusOne), WireInt(MinusTwo), NotI64}
       [] k \in {"ownerAddress", "votingAddress", "payoutAddress"} -> AddressWire
       [] k = "platformNodeID" ->
            {WireStr("hex", Bytes(AddressLen, 1)), WireStr("hex", Bytes(19, 1)),
             WireStr("text", Bytes(0, 0)), WireNull}
       [] k = "pubKeyOperator" ->
            {WireStr("hex", Bytes(48, 1)), WireStr("text", Bytes(0, 0)), WireNull}
       [] k = "operatorPayoutAddress" ->
            {WireStr("address", Bytes(AddressLen, 1)), WireStr("text", Bytes(0, 0))}]

\* the slot of DMNStateDiff that a key of the wire object fills
KeySlot ==
  [k \in DiffKeys |->
     CASE k = "service" -> "service"
       [] k = "registeredHeight" -> "registered_height"
       [] k = "lastPaidHeight" -> "last_paid_height"
       [] k = "consecutivePayments" -> "consecutive_payments"
       [] k = "PoSePenalty" -> "pose_penalty"
       [] k = "PoSeRevivedHeight" -> "pose_revived_height"
       [] k = "PoSeBanHeight" -> "pose_ban_height"
       [] k = "revocationReason" -> "revocation_reason"
       [] k = "ownerAddress" -> "owner_address"
       [] k = "votingAddress" -> "voting_address"
       [] k = "platformNodeID" -> "platform_node_id"
       [] k = "platformP2PPort" -> "platform_p2p_port"
       [] k = "platformHTTPPort" -> "platform_http_port"
       [] k = "payoutAddress" -> "payout_address"
       [] k = "pubKeyOperator" -> "pub_key_operator"]

EmptyWireDiff == [k \in WireDiffKeys |-> Absent]
WireDiffs == Ball(EmptyWireDiff, WireDiffKeys, WireDiffDom, MaxKeys)

\* ------------------------------------------------------------------ DMNState decoder
\* the keys DMNState reads
StateKeys ==
  {"service", "registeredHeight", "PoSeRevivedHeight", "PoSeBanHeight",
   "revocationReason", "ownerAddress", "votingAddress", "payoutAddress",
   "pubKeyOperator", "operatorPayoutAddress", "platformNodeID",
   "platformP2PPort", "platformHTTPPort"}

\* one field of DMNState
state_field(k, w) ==
  CASE k = "service" -> required_socket(k, w)
    [] k \in {"registeredHeight", "revocationReason"} -> required_u32(k, w)
    [] k \in PoSeKeys -> with_serde_error(default_u32_opt(w), w)
    [] k \in {"ownerAddress", "votingAddress", "payoutAddress"} ->
         deserialize_address(k, w)
    [] k = "pubKeyOperator" -> required_hex(k, w)
    [] k = "operatorPayoutAddress" -> deserialize_address_optional(w)
    [] k = "platformNodeID" -> deserialize_hex_to_address_optional(w)
    [] k \in {"platformP2PPort", "platformHTTPPort"} -> option_u32(w)

\* the results serde_json::from_value::<DMNState>(o) can give: the decoded
\* state, or the error of any field that fails
decode_state(o) ==
  LET failed == {k \in StateKeys : ~state_field(k, o[k]).ok}
      f(k) == state_field(k, o[k]).val
  IN  IF failed # {}
        THEN {state_field(k, o[k]) : k \in failed}
        ELSE {Ok([service |-> f("service"),
                  registered_height |-> f("registeredHeight"),
                  pose_revived_height |-> f("PoSeRevivedHeight"),
                  pose_ban_height |-> f("PoSeBanHeight"),
                  revocation_reason |-> f("revocationReason"),
                  owner_address |-> f("ownerAddress"),
                  voting_address |-> f("votingAddress"),
                  payout_address |-> f("payoutAddress"),
                  pub_key_operator |-> f("pubKeyOperator"),
                  operator_payout_address |-> f("operatorPayoutAddress"),
                  platform_node_id |-> f("platformNodeID"),
                  platform_p2p_port |-> f("platformP2PPort"),
                  platform_http_port |-> f("platformHTTPPort")])}

\* a wire node state every field of which decodes
BaseWireState ==
  [k \in StateKeys |->
     CASE k = "service" -> WireStr("socket", Bytes(6, 1))
       [] k \in {"registeredHeight", "revocationReason"} -> WireInt(One)
       [] k \in PoSeKeys -> WireInt(MinusOne)
       [] k \in {"ownerAddress", "votingAddress", "payoutAddress"} ->
            WireStr("address", Bytes(AddressLen, 1))
       [] k = "pubKeyOperator" -> WireStr("hex", Bytes(48, 1))
       [] OTHER -> Absent]

\* the values a key takes in the enumerated wire node states
WireStateDom ==
  [k \in StateKeys |->
     CASE k = "service" -> {Absent, WireStr("text", Bytes(0, 0))}
       [] k \in {"registeredHeight", "revocationReason"} ->
            {Absent, WireInt(MinusOne)}
       [] k \in PoSeKeys ->
            {Absent, WireInt(One), WireInt(MinusTwo), NotI64}
       [] k \in {"ownerAddress", "votingAddress", "payoutAddress",
                 "operatorPayoutAddress"} -> {Absent} \cup AddressWire
       [] k = "pubKeyOperator" -> {Absent, WireStr("text", Bytes(0, 0))}
       [] k = "platformNodeID" ->
            {WireStr("hex", Bytes(AddressLen, 1)), WireStr("hex", Bytes(19, 1)),
             WireStr("text", Bytes(0, 0)), WireNull}
       [] k \in {"platformP2PPort", "platformHTTPPort"} -> U32Wire]

WireStates == Ball(BaseWireState, StateKeys, WireStateDom, MaxKeys)

\* ------------------------------------------------------------------ MasternodeListItem decoder
\* the length of a ProTxHash, a Txid and a BlockHash
HashLen == 32

\* ProTxHash::deserialize / Txid::deserialize of a required key: the hex text
\* of exactly 32 bytes
deserialize_hash(k, w) ==
  IF w.kind = "absent" THEN Fail(serde_missing(k))
  ELSE IF w.kind = "str" /\ form_of(w.val) = "hex" /\ bytes_of(w.val).len = HashLen
    THEN Ok(bytes_of(w.val))
  ELSE Fail(serde_invalid(w))

\* the texts "Regular", "Evo" and a text that names no MasternodeType
RegularText == 1
EvoText == 2
OtherText == 3
WireText(id) == WireStr("text", Bytes(0, id))

\* MasternodeType::deserialize
deserialize_masternode_type(k, w) ==
  IF w.kind = "absent" THEN Fail(serde_missing(k))
  ELSE IF w.kind = "str" /\ form_of(w.val) = "text" /\ bytes_of(w.val).id \in {RegularText, EvoText}
    THEN Ok(bytes_of(w.val).id)
  ELSE Fail(serde_invalid(w))

\* f32::deserialize of a required key
required_f32(k, w) ==
  IF w.kind = "absent" THEN Fail(serde_missing(k))
  ELSE IF w.kind = "int" THEN Ok(w.val)
  ELSE Fail(serde_invalid(w))

ItemKeys ==
  {"type", "proTxHash", "collateralHash", "collateralIndex", "collateralAddress",
   "operatorReward", "state"}

\* the results of decoding the fields of a MasternodeListItem other than state
item_field(k, w) ==
  CASE k = "type" -> deserialize_masternode_type(k, w)
    [] k \in {"proTxHash", "collateralHash"} -> deserialize_hash(k, w)
    [] k = "collateralIndex" -> required_u32(k, w)
    [] k = "collateralAddress" -> deserialize_address(k, w)
    [] k = "operatorReward" -> required_f32(k, w)

\* the results serde_json::from_value::<MasternodeListItem>(o) can give; the
\* value under "state" is a wire node state
decode_item(o) ==
  LET plain == ItemKeys \ {"state"}
      failed == {k \in plain : ~item_field(k, o[k]).ok}
      states == decode_state(o.state)
      f(k) == item_field(k, o[k]).val
  IN  {item_field(k, o[k]) : k \in failed}
      \cup {s \in states : ~s.ok}
      \cup IF failed = {}
             THEN {Ok([node_type |-> f("type"),
                       pro_tx_hash |-> f("proTxHash"),
                       collateral_hash |-> f("collateralHash"),
                       collateral_index |-> f("collateralIndex"),
                       collateral_address |-> f("collateralAddress"),
                       operator_reward |-> f("operatorReward"),
                       state |-> s.val]) : s \in {s \in states : s.ok}}
             ELSE {}

\* a wire list item every field of which decodes
WireItem(id) ==
  [k \in ItemKeys |->
     CASE k = "type" -> WireText(RegularText)
       [] k = "proTxHash" -> WireStr("hex", Bytes(HashLen, id))
       [] k = "collateralHash" -> WireStr("hex", Bytes(HashLen, 9))
       [] k = "collateralIndex" -> WireInt(One)
       [] k = "collateralAddress" -> WireStr("address", Bytes(AddressLen, 1))
       [] k = "operatorReward" -> WireInt(<<0, 0, 0, 0>>)
       [] k = "state" -> BaseWireState]

\* the values a key takes in the enumerated wire list items
WireItemDom ==
  [k \in ItemKeys |->
     CASE k = "type" -> {WireText(EvoText), WireText(OtherText)}
       [] k \in {"proTxHash", "collateralHash"} ->
            {WireStr("hex", Bytes(HashLen, 2)), WireStr("hex", Bytes(31, 1))}
       [] k = "collateralIndex" -> {Absent, WireInt(MinusOne)}
       [] k = "collateralAddress" -> {Absent} \cup AddressWire
       [] k = "operatorReward" -> {Absent, WireNull}
       [] k = "state" -> Ball(BaseWireState, StateKeys, WireStateDom, 1)]

WireItems == Ball(WireItem(1), ItemKeys, WireItemDom, MaxKeys)

\* ------------------------------------------------------------------ sequences and maps
\* bound on the number of entries of an enumerated wire registry difference
MaxEntries == 3
\* bound on the number of keys in which an enumerated wire rotation chain
\* departs from RotationBase
MaxParts == 2

\* a decode that can give one of several results fails when one of them is an error
Fails(rs) == \E r \in rs : ~r.ok
Errors(rs) == {r \in rs : ~r.ok}
\* the value of a decode that succeeded
The(rs) == (CHOOSE r \in rs : r.ok).val

\* the index of the first element of rs that fails
first_failure(rs) ==
  CHOOSE i \in DOMAIN rs : Fails(rs[i]) /\ \A j \in DOMAIN rs : Fails(rs[j]) => i <= j

\* mutant: an element that fails to decode is left out of the vector
decode_vec_skips_failures(rs) ==
  LET good == SelectSeq(rs, LAMBDA s : ~Fails(s))
  IN  {Ok([i \in DOMAIN good |-> The(good[i])])}

\* Vec<T>::deserialize, rs[i] being the results of T::deserialize of the i-th
\* element: the elements are read in order and the first error is returned
decode_vec(rs) ==
  IF \E i \in DOMAIN rs : Fails(rs[i])
    THEN Errors(rs[first_failure(rs)])
    ELSE {Ok([i \in DOMAIN rs |-> The(rs[i])])}

\* the derived Deserialize of a struct, parts[f] being the results of decoding
\* field f: the keys are read in the order of the document and the first
\* error is returned, so with several malformed fields the error is that of
\* any of them
decode_struct(parts) ==
  IF \E f \in DOMAIN parts : Fails(parts[f])
    THEN UNION {Errors(parts[f]) : f \in DOMAIN parts}
    ELSE {Ok([f \in DOMAIN parts |-> The(parts[f])])}

\* one entry of a wire map: the key is read before the value
decode_entry(e) ==
  LET key == deserialize_hash("key", e[1])
      value == decode_diff(e[2])
  IN  IF ~key.ok THEN {key}
      ELSE IF Fails(value) THEN Errors(value)
      ELSE {Ok(<<key.val, The(value)>>)}

\* HashMap<ProTxHash, DMNStateDiff>::deserialize of a wire map, a sequence of
\* (key, value) entries in the order of the document: an entry replaces an
\* earlier entry of the same key
decode_map(m) ==
  LET rs == [i \in DOMAIN m |-> decode_entry(m[i])]
  IN  IF \E i \in DOMAIN rs : Fails(rs[i])
        THEN Errors(rs[first_failure(rs)])
        ELSE {Ok({The(rs[i]) : i \in {i \in DOMAIN rs :
                     \A j \in DOMAIN rs : j > i => The(rs[j])[1] # The(rs[i])[1]}})}

\* HashMap::into_iter: the entries of the map in an order the map chooses
RECURSIVE into_iter(_)
into_iter(map) ==
  IF map = {} THEN {<<>>}
  ELSE UNION {{<<e>> \o rest : rest \in into_iter(map \ {e})} : e \in map}

\* the sequences into_iter().flatten() can give for a vector of maps
RECURSIVE flatten_orders(_)
flatten_orders(maps) ==
  IF maps = <<>> THEN {<<>>}
  ELSE {first \o rest : first \in into_iter(Head(maps)),
                        rest \in flatten_orders(Tail(maps))}

\* mutant: the maps are merged into one map before its entries are listed
flatten_merged(maps) ==
  LET all == UNION {maps[i] : i \in DOMAIN maps}
      keys == {e[1] : e \in all}
  IN  into_iter({CHOOSE e \in all : e[1] = k : k \in keys})

\* updated_mns.into_iter().flatten().collect()
flatten(maps) == flatten_orders(maps)

\* ------------------------------------------------------------------ MasternodeListDiff decoder
\* From<MasternodeListDiffIntermediate> for MasternodeListDiff
from_intermediate(value) ==
  {[base_height |-> value.base_height,
    block_height |-> value.block_height,
    added_mns |-> value.added_mns,
    removed_mns |-> value.removed_mns,
    updated_mns |-> u] : u \in flatten(value.updated_mns)}

\* the results serde_json::from_value::<MasternodeListDiff>(o) can give; the
\* three collections of o are sequences of wire values
decode_list_diff(o) ==
  LET intermediate ==
        decode_struct(
          [base_height |-> {required_u32("baseHeight", o.baseHeight)},
           block_height |-> {required_u32("blockHeight", o.blockHeight)},
           added_mns |-> decode_vec([i \in DOMAIN o.addedMNs |-> decode_item(o.addedMNs[i])]),
           removed_mns |->
             decode_vec([i \in DOMAIN o.removedMNs |->
                           {deserialize_hash("removedMNs", o.removedMNs[i])}]),
           updated_mns |->
             decode_vec([i \in DOMAIN o.updatedMNs |-> decode_map(o.updatedMNs[i])])])
  IN  IF Fails(intermediate) THEN intermediate
      ELSE {Ok(d) : d \in from_intermediate(The(intermediate))}

\* the wire form of the ProTxHash with the given id
WireHash(id) == WireStr("hex", Bytes(HashLen, id))

\* a wire list item that does not decode: its collateral address has a
\* payload of 32 bytes
BadWireItem == [WireItem(3) EXCEPT !.collateralAddress = WireStr("address", Bytes(HashLen, 1))]

\* wire differences: one with only lastPaidHeight and PoSeRevivedHeight, one
\* that clears PoSeBanHeight, and one that does not decode
PaidWireDiff ==
  [EmptyWireDiff EXCEPT !.lastPaidHeight = WireInt(One), !.PoSeRevivedHeight = WireInt(One)]
ClearWireDiff == [EmptyWireDiff EXCEPT !.PoSeBanHeight = WireInt(MinusOne)]
BadWireDiff == [EmptyWireDiff EXCEPT !.ownerAddress = WireStr("address", Bytes(HashLen, 1))]

AddedSamples == {WireItem(1), WireItem(2), BadWireItem}
RemovedSamples == {WireHash(1), WireHash(2), WireHash(3), WireStr("hex", Bytes(31, 1))}
EntrySamples ==
  {<<WireHash(1), PaidWireDiff>>, <<WireHash(1), ClearWireDiff>>,
   <<WireHash(2), ClearWireDiff>>, <<WireHash(3), BadWireDiff>>,
   <<WireStr("hex", Bytes(31, 1)), PaidWireDiff>>}

EmptyWireListDiff ==
  [baseHeight |-> WireInt(One), blockHeight |-> WireInt(One),
   addedMNs |-> <<>>, removedMNs |-> <<>>, updatedMNs |-> <<>>]

\* the ways a wire registry difference grows by one entry: an added item, a
\* removed identity, a new map of one or no entry, or an entry in the last map
Extensions ==
  {<<"addedMNs", a>> : a \in AddedSamples}
    \cup {<<"removedMNs", h>> : h \in RemovedSamples}
    \cup {<<"map", <<e>>>> : e \in EntrySamples}
    \cup {<<"map", <<>>>>}
    \cup {<<"entry", e>> : e \in EntrySamples}

\* the wire registry difference o grown by c; an entry needs a map to go into
Extend(o, c) ==
  CASE c[1] = "addedMNs" -> [o EXCEPT !.addedMNs = Append(@, c[2])]
    [] c[1] = "removedMNs" -> [o EXCEPT !.removedMNs = Append(@, c[2])]
    [] c[1] = "map" -> [o EXCEPT !.updatedMNs = Append(@, c[2])]
    [] c[1] = "entry" ->
         IF o.updatedMNs = <<>> THEN o
         ELSE [o EXCEPT !.updatedMNs[Len(o.updatedMNs)] = Append(@, c[2])]

RECURSIVE WireListDiffsUpTo(_)
WireListDiffsUpTo(n) ==
  IF n = 0 THEN {EmptyWireListDiff}
  ELSE LET smaller == WireListDiffsUpTo(n - 1)
       IN  smaller \cup {Extend(o, c) : o \in smaller, c \in Extensions}

WireListDiffs == WireListDiffsUpTo(MaxEntries)

\* ------------------------------------------------------------------ QuorumType
\* enum QuorumType: each variant with its discriminant
Discriminants ==
  "Llmq50_60" :> 1 @@ "Llmq400_60" :> 2 @@ "Llmq400_85" :> 3 @@ "Llmq100_67" :> 4
    @@ "Llmq60_75" :> 5 @@ "Llmq25_67" :> 6 @@ "LlmqTest" :> 100 @@ "LlmqDevnet" :> 101
    @@ "LlmqTestV17" :> 102 @@ "LlmqTestDip0024" :> 103 @@ "LlmqTestInstantsend" :> 104
    @@ "LlmqDevnetDip0024" :> 105 @@ "LlmqTestPlatform" :> 106
    @@ "LlmqDevnetPlatform" :> 107 @@ "LlmqSingleNode" :> 111 @@ "UNKNOWN" :> 0

QuorumTypes == DOMAIN Discriminants
UNKNOWN == "UNKNOWN"

\* the discriminants of QuorumType other than UNKNOWN
KnownCodes == {Discriminants[q] : q \in QuorumTypes \ {UNKNOWN}}

\* a code that is no discriminant of QuorumType
OtherCode == 7

\* the arms of From<u32> for QuorumType other than `_`
CodeArms ==
  1 :> "Llmq50_60" @@ 2 :> "Llmq400_60" @@ 3 :> "Llmq400_85" @@ 4 :> "Llmq100_67"
    @@ 5 :> "Llmq60_75" @@ 6 :> "Llmq25_67" @@ 100 :> "LlmqTest" @@ 101 :> "LlmqDevnet"
    @@ 102 :> "LlmqTestV17" @@ 103 :> "LlmqTestDip0024" @@ 104 :> "LlmqTestInstantsend"
    @@ 105 :> "LlmqDevnetDip0024" @@ 106 :> "LlmqTestPlatform"
    @@ 107 :> "LlmqDevnetPlatform" @@ 111 :> "LlmqSingleNode"

\* the arms of Display for QuorumType
DisplayArms ==
  "Llmq50_60" :> "llmq_50_60" @@ "Llmq60_75" :> "llmq_60_75"
    @@ "Llmq400_60" :> "llmq_400_60" @@ "Llmq400_85" :> "llmq_400_85"
    @@ "Llmq100_67" :> "llmq_100_67" @@ "Llmq25_67" :> "llmq_25_67"
    @@ "LlmqTest" :> "llmq_test" @@ "LlmqTestInstantsend" :> "llmq_test_instantsend"
    @@ "LlmqTestV17" :> "llmq_test_v17" @@ "LlmqTestDip0024" :> "llmq_test_dip0024"
    @@ "LlmqDevnet" :> "llmq_devnet" @@ "LlmqDevnetDip0024" :> "llmq_devnet_dip0024"
    @@ "UNKNOWN" :> "unknown" @@ "LlmqTestPlatform" :> "llmq_test_platform"
    @@ "LlmqDevnetPlatform" :> "llmq_devnet_platform" @@ "LlmqSingleNode" :> "llmq_1_100"

\* the arms of From<&str> for QuorumType other than `_`
NameArms ==
  "llmq_50_60" :> "Llmq50_60" @@ "llmq_60_75" :> "Llmq60_75"
    @@ "llmq_400_60" :> "Llmq400_60" @@ "llmq_400_85" :> "Llmq400_85"
    @@ "llmq_100_67" :> "Llmq100_67" @@ "llmq_25_67" :> "Llmq25_67"
    @@ "llmq_test" :> "LlmqTest" @@ "llmq_test_instantsend" :> "LlmqTestInstantsend"
    @@ "llmq_test_v17" :> "LlmqTestV17" @@ "llmq_test_dip0024" :> "LlmqTestDip0024"
    @@ "llmq_devnet" :> "LlmqDevnet" @@ "llmq_devnet_dip0024" :> "LlmqDevnetDip0024"
    @@ "llmq_test_platform" :> "LlmqTestPlatform"
    @@ "llmq_devnet_platform" :> "LlmqDevnetPlatform" @@ "llmq_1_100" :> "LlmqSingleNode"

\* From<u32> for QuorumType; value is a u32 as two limbs
from_u32(value) ==
  IF value[2] = 0 /\ value[1] \in DOMAIN CodeArms THEN CodeArms[value[1]] ELSE UNKNOWN

\* Display for QuorumType
fmt(self) == DisplayArms[self]

\* mutant: the arm of "llmq_1_100" is missing
from_str_without_single_node(value) ==
  IF value \in DOMAIN NameArms \ {"llmq_1_100"} THEN NameArms[value] ELSE UNKNOWN

\* From<&str> for QuorumType
from_str(value) == IF value \in DOMAIN NameArms THEN NameArms[value] ELSE UNKNOWN

\* a name that is no arm of From<&str>
OtherName == "llmq_other"

\* serde's error when no variant of the untagged IntegerOrString matches: it
\* names no field and quotes no value
untagged_mismatch == ErrorValue("serde::untagged", None, None, <<>>)

\* a tag given as a JSON string: the text name ("name"), or the same with an
\* escape sequence in the document ("escaped"), which cannot be borrowed as
\* &str
WireName(form, name) == WireStr(form, Bytes(0, name))

\* mutant: a code or a name outside the table is an error
deserialize_quorum_type_rejects_unknown(k, w) ==
  IF w.kind = "absent" THEN Fail(serde_missing(k))
  ELSE IF w.kind = "int" /\ w.val[3] = 0 /\ w.val[4] = 0 /\ from_u32(as_u32(w.val)) # UNKNOWN
    THEN Ok(from_u32(as_u32(w.val)))
  ELSE IF w.kind = "str" /\ form_of(w.val) = "name" /\ from_str(bytes_of(w.val).id) # UNKNOWN
    THEN Ok(from_str(bytes_of(w.val).id))
  ELSE Fail(untagged_mismatch)

\* deserialize_quorum_type: IntegerOrString::deserialize, then into()
deserialize_quorum_type(k, w) ==
  IF w.kind = "absent" THEN Fail(serde_missing(k))
  ELSE IF w.kind = "int" /\ w.val[3] = 0 /\ w.val[4] = 0
    THEN Ok(from_u32(as_u32(w.val)))
  ELSE IF w.kind = "str" /\ form_of(w.val) = "name"
    THEN Ok(from_str(bytes_of(w.val).id))
  ELSE Fail(untagged_mismatch)

\* ------------------------------------------------------------------ QuorumRotationInfo decoder
WireBool(b) == [kind |-> "bool", val |-> <<IF b THEN 1 ELSE 0>>]

\* the number of values of u8
U8Range == 256

\* u8::deserialize of a required key
required_u8(k, w) ==
  IF w.kind = "absent" THEN Fail(serde_missing(k))
  ELSE IF w.kind = "int" /\ w.val[1] < U8Range /\ w.val[2] = 0 /\ w.val[3] = 0 /\ w.val[4] = 0
    THEN Ok(w.val[1])
  ELSE Fail(serde_invalid(w))

\* bool::deserialize of a required key
required_bool(k, w) ==
  IF w.kind = "absent" THEN Fail(serde_missing(k))
  ELSE IF w.kind = "bool" THEN Ok(w.val[1] = 1)
  ELSE Fail(serde_invalid(w))

\* #[serde_as(as = "Bytes")] Vec<u8> of a required key, given as a JSON string
required_bytes(k, w) ==
  IF w.kind = "absent" THEN Fail(serde_missing(k))
  ELSE IF w.kind = "str" THEN Ok(bytes_of(w.val))
  ELSE Fail(serde_invalid(w))

\* QuorumSnapshot::deserialize
decode_snapshot(o) ==
  decode_struct(
    [active_quorum_members |->
       decode_vec([i \in DOMAIN o.activeQuorumMembers |->
                     {required_bool("activeQuorumMembers", o.activeQuorumMembers[i])}]),
     mn_skip_list_mode |-> {required_u8("mnSkipListMode", o.mnSkipListMode)},
     mn_skip_list |->
       decode_vec([i \in DOMAIN o.mnSkipList |->
                     {required_u8("mnSkipList", o.mnSkipList[i])}])])

\* QuorumMasternodeListItem::deserialize
decode_quorum_masternode(o) ==
  decode_struct(
    [pro_reg_tx_hash |-> {required_hex("proRegTxHash", o.proRegTxHash)},
     confirmed_hash |-> {required_hex("confirmedHash", o.confirmedHash)},
     service |-> {required_socket("service", o.service)},
     pub_key_operator |-> {required_hex("pubKeyOperator", o.pubKeyOperator)},
     voting_address |-> {required_bytes("votingAddress", o.votingAddress)},
     is_valid |-> {required_bool("isValid", o.isValid)}])

\* QuorumItemDeleted::deserialize
decode_item_deleted(o) ==
  decode_struct(
    [llmq_type |-> {deserialize_quorum_type("llmqType", o.llmqType)},
     quorum_hash |-> {deserialize_hash("quorumHash", o.quorumHash)}])

\* QuorumMinableCommitments::deserialize
decode_commitments(o) ==
  decode_struct(
    [version |-> {required_u8("version", o.version)},
     llmq_type |-> {deserialize_quorum_type("llmqType", o.llmqType)},
     quorum_hash |-> {deserialize_hash("quorumHash", o.quorumHash)},
     quorum_index |-> {required_u32("quorumIndex", o.quorumIndex)},
     signers_count |-> {required_u32("signersCount", o.signersCount)},
     signers |-> {required_bytes("signers", o.signers)},
     valid_members_count |-> {required_u32("validMembersCount", o.validMembersCount)},
     valid_members |-> {required_bytes("validMembers", o.validMembers)},
     quorum_public_key |-> {required_bytes("quorumPublicKey", o.quorumPublicKey)},
     quorum_vvec_hash |-> {required_bytes("quorumVvecHash", o.quorumVvecHash)},
     quorum_sig |-> {required_bytes("quorumSig", o.quorumSig)},
     members_sig |-> {required_bytes("membersSig", o.membersSig)}])

\* MasternodeDiff::deserialize
decode_masternode_diff(o) ==
  decode_struct(
    [base_block_hash |-> {deserialize_hash("baseBlockHash", o.baseBlockHash)},
     block_hash |-> {deserialize_hash("blockHash", o.blockHash)},
     cb_tx_merkle_tree |-> {required_bytes("cbTxMerkleTree", o.cbTxMerkleTree)},
     cb_tx |-> {required_bytes("cbTx", o.cbTx)},
     deleted_mns |->
       decode_vec([i \in DOMAIN o.deletedMNs |-> decode_quorum_masternode(o.deletedMNs[i])]),
     mn_list |->
       decode_vec([i \in DOMAIN o.mnList |-> decode_quorum_masternode(o.mnList[i])]),
     deleted_quorums |->
       decode_vec([i \in DOMAIN o.deletedQuorums |-> decode_item_deleted(o.deletedQuorums[i])]),
     new_quorums |->
       decode_vec([i \in DOMAIN o.newQuorums |-> decode_commitments(o.newQuorums[i])]),
     merkle_root_mn_list |-> {required_hex("merkleRootMNList", o.merkleRootMNList)},
     merkle_root_quorums |-> {required_hex("merkleRootQuorums", o.merkleRootQuorums)}])

\* the keys of a wire rotation chain that hold one snapshot, one difference,
\* a list of snapshots and a list of differences
SnapshotKeys ==
  {"quorumSnapshotAtHMinusC", "quorumSnapshotAtHMinus2C", "quorumSnapshotAtHMinus3C"}
MnDiffKeys ==
  {"mnListDiffTip", "mnListDiffH", "mnListDiffAtHMinusC", "mnListDiffAtHMinus2C",
   "mnListDiffAtHMinus3C"}
RotationKeys ==
  {"extraShare", "blockHashList", "quorumSnapshotList", "mnListDiffList"}
    \cup SnapshotKeys \cup MnDiffKeys

\* the results serde_json::from_value::<QuorumRotationInfo>(o) can give
decode_rotation_info(o) ==
  decode_struct(
    [extra_share |-> {required_bool("extraShare", o.extraShare)},
     quorum_snapshot_at_h_minus_c |-> decode_snapshot(o.quorumSnapshotAtHMinusC),
     quorum_snapshot_at_h_minus_2c |-> decode_snapshot(o.quorumSnapshotAtHMinus2C),
     quorum_snapshot_at_h_minus_3c |-> decode_snapshot(o.quorumSnapshotAtHMinus3C),
     mn_list_diff_tip |-> decode_masternode_diff(o.mnListDiffTip),
     mn_list_diff_h |-> decode_masternode_diff(o.mnListDiffH),
     mn_list_diff_at_h_minus_c |-> decode_masternode_diff(o.mnListDiffAtHMinusC),
     mn_list_diff_at_h_minus_2c |-> decode_masternode_diff(o.mnListDiffAtHMinus2C),
     mn_list_diff_at_h_minus_3c |-> decode_masternode_diff(o.mnListDiffAtHMinus3C),
     block_hash_list |->
       decode_vec([i \in DOMAIN o.blockHashList |->
                     {deserialize_hash("blockHashList", o.blockHashList[i])}]),
     quorum_snapshot_list |->
       decode_vec([i \in DOMAIN o.quorumSnapshotList |->
                     decode_snapshot(o.quorumSnapshotList[i])]),
     mn_list_diff_list |->
       decode_vec([i \in DOMAIN o.mnListDiffList |->
                     decode_masternode_diff(o.mnListDiffList[i])])])

\* tags of the enumerated wire quorum entries: a code and a name outside the
\* table, a name with an escape sequence, and a number that is no u32
UnknownTags == {WireInt(<<OtherCode, 0, 0, 0>>), WireName("name", OtherName)}
MalformedTags == {WireName("escaped", "llmq_50_60"), WireInt(MinusOne)}

WireItemDeleted(tag) == [llmqType |-> tag, quorumHash |-> WireHash(1)]

WireCommitments(tag) ==
  [version |-> WireInt(One), llmqType |-> tag, quorumHash |-> WireHash(1),
   quorumIndex |-> WireInt(One), signersCount |-> WireInt(One),
   signers |-> WireStr("text", Bytes(1, 1)),
   validMembersCount |-> WireInt(One),
   validMembers |-> WireStr("text", Bytes(1, 1)),
   quorumPublicKey |-> WireStr("text", Bytes(48, 1)),
   quorumVvecHash |-> WireStr("text", Bytes(HashLen, 1)),
   quorumSig |-> WireStr("text", Bytes(96, 1)),
   membersSig |-> WireStr("text", Bytes(96, 1))]

WireQuorumMasternode ==
  [proRegTxHash |-> WireHash(1), confirmedHash |-> WireHash(2),
   service |-> WireStr("socket", Bytes(0, 1)),
   pubKeyOperator |-> WireStr("hex", Bytes(48, 1)),
   votingAddress |-> WireStr("text", Bytes(AddressLen, 1)),
   isValid |-> WireBool(TRUE)]

\* a wire MasternodeDiff with the given block hash and quorum entries
WireMasternodeDiff(hash, deleted, new) ==
  [baseBlockHash |-> WireHash(1), blockHash |-> hash,
   cbTxMerkleTree |-> WireStr("text", Bytes(1, 1)),
   cbTx |-> WireStr("text", Bytes(1, 1)),
   deletedMNs |-> <<>>, mnList |-> <<WireQuorumMasternode>>,
   deletedQuorums |-> deleted, newQuorums |-> new,
   merkleRootMNList |-> WireHash(1), merkleRootQuorums |-> WireHash(2)]

GoodMasternodeDiff ==
  WireMasternodeDiff(WireHash(2), <<WireItemDeleted(WireInt(One))>>,
                     <<WireCommitments(WireName("name", "llmq_50_60"))>>)

\* differences that are well formed but for a quorum type outside the table
UnknownTagDiffs ==
  {WireMasternodeDiff(WireHash(2), <<WireItemDeleted(t)>>, <<>>) : t \in UnknownTags}
  \cup {WireMasternodeDiff(WireHash(2), <<>>, <<WireCommitments(t)>>) : t \in UnknownTags}

\* differences that do not decode
BadMasternodeDiffs ==
  {WireMasternodeDiff(WireHash(2), <<WireItemDeleted(t)>>, <<>>) : t \in MalformedTags}
  \cup {WireMasternodeDiff(WireStr("hex", Bytes(31, 1)), <<>>, <<>>)}

WireSnapshot(mode) ==
  [activeQuorumMembers |-> <<WireBool(TRUE), WireBool(FALSE)>>,
   mnSkipListMode |-> mode,
   mnSkipList |-> <<WireInt(One)>>]

GoodSnapshot == WireSnapshot(WireInt(One))
\* a snapshot that does not decode: its mode is no u8
BadSnapshot == WireSnapshot(WireInt(<<U8Range, 0, 0, 0>>))

RotationBase ==
  [k \in RotationKeys |->
     CASE k = "extraShare" -> WireBool(FALSE)
       [] k = "blockHashList" -> <<WireHash(1)>>
       [] k = "quorumSnapshotList" -> <<>>
       [] k = "mnListDiffList" -> <<>>
       [] k \in SnapshotKeys -> GoodSnapshot
       [] k \in MnDiffKeys -> GoodMasternodeDiff]

\* the values a key takes in the enumerated wire rotation chains
RotationDom ==
  [k \in RotationKeys |->
     CASE k = "extraShare" -> {Absent}
       [] k = "blockHashList" -> {<<>>, <<WireHash(1), WireStr("hex", Bytes(31, 1))>>}
       [] k = "quorumSnapshotList" ->
            {<<GoodSnapshot>>, <<BadSnapshot>>, <<GoodSnapshot, GoodSnapshot>>,
             <<GoodSnapshot, BadSnapshot>>}
       [] k = "mnListDiffList" ->
            {<<GoodMasternodeDiff>>, <<GoodMasternodeDiff, GoodMasternodeDiff>>}
              \cup {<<d>> : d \in UnknownTagDiffs \cup BadMasternodeDiffs}
              \cup {<<GoodMasternodeDiff, d>> : d \in BadMasternodeDiffs}
       [] k \in SnapshotKeys -> {BadSnapshot}
       [] k \in MnDiffKeys -> UnknownTagDiffs \cup BadMasternodeDiffs]

WireRotations == Ball(RotationBase, RotationKeys, RotationDom, MaxParts)

\* ------------------------------------------------------------------ state
VARIABLES
  pc,      \* the operation that produced the current state
  dmn,     \* the DMNState the operations are called on (self)
  before,  \* dmn as it was before the last apply_diff
  other,   \* the DMNState argument of the last compare_to_*_dmn_state
  diff,    \* Option<DMNStateDiff>: the differ's result or apply_diff's argument
  wire,    \* the wire object handed to the last decode
  decoded  \* Result of the last decode

vars == <<pc, dmn, before, other, diff, wire, decoded>>

Init ==
  /\ pc = "idle"
  /\ dmn \in InitStates
  /\ before = dmn
  /\ other = dmn
  /\ diff = None
  /\ wire = EmptyWire
  /\ decoded = Err

\* self.compare_to_newer_dmn_state(newer)
CompareToNewer ==
  /\ pc = "idle"
  /\ \E newer \in OtherStates :
       /\ other' = newer
       /\ diff' = compare_to_newer_dmn_state(dmn, newer)
  /\ pc' = "compared_newer"
  /\ UNCHANGED <<dmn, before, wire, decoded>>

\* self.compare_to_older_dmn_state(older)
CompareToOlder ==
  /\ pc = "idle"
  /\ \E older \in OtherStates :
       /\ other' = older
       /\ diff' = compare_to_older_dmn_state(dmn, older)
  /\ pc' = "compared_older"
  /\ UNCHANGED <<dmn, before, wire, decoded>>

\* self.apply_diff(d) with the difference the differ returned for (self, newer);
\* nothing is applied when the differ returned None
ApplyCompared ==
  /\ pc = "compared_newer"
  /\ before' = dmn
  /\ dmn' = IF IsSome(diff) THEN apply_diff(dmn, Unwrap(diff)) ELSE dmn
  /\ pc' = "round_trip"
  /\ UNCHANGED <<other, diff, wire, decoded>>

\* self.apply_diff(d) for a difference d from any source
ApplyDiff ==
  /\ pc = "idle"
  /\ \E d \in Diffs :
       /\ diff' = Some(d)
       /\ dmn' = apply_diff(dmn, d)
  /\ before' = dmn
  /\ pc' = "applied"
  /\ UNCHANGED <<other, wire, decoded>>

\* self.apply_diff(d) once more, with the difference that was just applied
ApplyAgain ==
  /\ pc = "applied"
  /\ before' = dmn
  /\ dmn' = apply_diff(dmn, Unwrap(diff))
  /\ pc' = "applied_twice"
  /\ UNCHANGED <<other, diff, wire, decoded>>

Next ==
  \/ CompareToNewer
  \/ CompareToOlder
  \/ ApplyCompared
  \/ ApplyDiff
  \/ ApplyAgain

Spec == Init /\ [][Next]_vars

\* ------------------------------------------------------------------ chained application
\* the states of the enumerated chains: BaseState with every choice of a
\* plain attribute, an optional attribute and a tri-state attribute
ChainStates ==
  {[BaseState EXCEPT !.registered_height = r, !.platform_http_port = p,
                     !.pose_ban_height = b] :
     r \in {1, 2}, p \in {None, Some(1)}, b \in {None, Some(1)}}

InitChain ==
  /\ pc = "idle"
  /\ dmn \in ChainStates
  /\ before = dmn
  /\ other = dmn
  /\ diff = None
  /\ wire = EmptyWire
  /\ decoded = Err

\* one step of a chain s0, s1, ..: other is the last state of the chain so far
\* and dmn the state rebuilt from s0; the difference from other to the next
\* state is computed and, when there is one, applied to dmn
ChainStep ==
  /\ pc \in {"idle", "chained"}
  /\ \E newer \in ChainStates :
       LET d == compare_to_newer_dmn_state(other, newer)
       IN  /\ diff' = d
           /\ other' = newer
           /\ dmn' = IF IsSome(d) THEN apply_diff(dmn, Unwrap(d)) ELSE dmn
  /\ before' = dmn
  /\ pc' = "chained"
  /\ UNCHANGED <<wire, decoded>>

NextChain == ChainStep

SpecChain == InitChain /\ [][NextChain]_vars

\* ------------------------------------------------------------------ decoding
InitDecode ==
  /\ pc = "idle"
  /\ dmn = BaseState
  /\ before = dmn
  /\ other = dmn
  /\ diff = None
  /\ wire = EmptyWire
  /\ decoded = Err

\* serde_json::from_value::<DMNState>(o), PoSe height fields
DecodeState ==
  /\ pc = "idle"
  /\ \E o \in WireObjects :
       /\ wire' = o
       /\ decoded' = decode_state_pose(o)
  /\ pc' = "decoded_state"
  /\ UNCHANGED <<dmn, before, other, diff>>

\* serde_json::from_value::<DMNStateDiff>(o), PoSe height fields
DecodeDiff ==
  /\ pc = "idle"
  /\ \E o \in WireObjects :
       /\ wire' = o
       /\ decoded' = decode_diff_pose(o)
  /\ pc' = "decoded_diff"
  /\ UNCHANGED <<dmn, before, other, diff>>

NextDecode ==
  \/ DecodeState
  \/ DecodeDiff

SpecDecode == InitDecode /\ [][NextDecode]_vars

\* ------------------------------------------------------------------ decoding of whole objects
\* serde_json::from_value::<DMNStateDiff>(o)
DecodeDiffObject ==
  /\ pc = "idle"
  /\ \E o \in WireDiffs : \E r \in decode_diff(o) :
       /\ wire' = o
       /\ decoded' = r
  /\ pc' = "decoded_diff_object"
  /\ UNCHANGED <<dmn, before, other, diff>>

\* serde_json::from_value::<DMNState>(o)
DecodeStateObject ==
  /\ pc = "idle"
  /\ \E o \in WireStates : \E r \in decode_state(o) :
       /\ wire' = o
       /\ decoded' = r
  /\ pc' = "decoded_state_object"
  /\ UNCHANGED <<dmn, before, other, diff>>

\* serde_json::from_value::<MasternodeListItem>(o)
DecodeListItem ==
  /\ pc = "idle"
  /\ \E o \in WireItems : \E r \in decode_item(o) :
       /\ wire' = o
       /\ decoded' = r
  /\ pc' = "decoded_item"
  /\ UNCHANGED <<dmn, before, other, diff>>

NextObjects ==
  \/ DecodeDiffObject
  \/ DecodeStateObject
  \/ DecodeListItem

SpecObjects == InitDecode /\ [][NextObjects]_vars

\* ------------------------------------------------------------------ decoding of containers
\* serde_json::from_value::<MasternodeListDiff>(o)
DecodeListDiff ==
  /\ pc = "idle"
  /\ \E o \in WireListDiffs : \E r \in decode_list_diff(o) :
       /\ wire' = o
       /\ decoded' = r
  /\ pc' = "decoded_list_diff"
  /\ UNCHANGED <<dmn, before, other, diff>>

\* serde_json::from_value::<QuorumRotationInfo>(o)
DecodeRotationInfo ==
  /\ pc = "idle"
  /\ \E o \in WireRotations : \E r \in decode_rotation_info(o) :
       /\ wire' = o
       /\ decoded' = r
  /\ pc' = "decoded_rotation"
  /\ UNCHANGED <<dmn, before, other, diff>>

NextContainers ==
  \/ DecodeListDiff
  \/ DecodeRotationInfo

SpecContainers == InitDecode /\ [][NextContainers]_vars

\* ------------------------------------------------------------------ QuorumType conversions
\* bound on the low limb of the enumerated u32 codes
MaxCode == 120

\* the enumerated names: every name Display gives, and texts that are no arm
\* of From<&str>
NameSamples ==
  {fmt(q) : q \in QuorumTypes} \cup {OtherName, "", "LLMQ_50_60", "Llmq50_60"}

\* QuorumType::from(n) for a u32 n
ConvertCode ==
  /\ pc = "idle"
  /\ \E lo \in 0..MaxCode : \E hi \in {0, 1} :
       /\ wire' = WireInt(<<lo, hi, 0, 0>>)
       /\ decoded' = Ok(from_u32(<<lo, hi>>))
  /\ pc' = "converted_code"
  /\ UNCHANGED <<dmn, before, other, diff>>

\* QuorumType::from(s) for a &str s
ConvertName ==
  /\ pc = "idle"
  /\ \E name \in NameSamples :
       /\ wire' = WireName("name", name)
       /\ decoded' = Ok(from_str(name))
  /\ pc' = "converted_name"
  /\ UNCHANGED <<dmn, before, other, diff>>

\* QuorumType::from(q.to_string().as_str()) and QuorumType::from(q as u32)
\* for a QuorumType q
RoundTripType ==
  /\ pc = "idle"
  /\ \E q \in QuorumTypes :
       /\ wire' = [variant |-> q]
       /\ decoded' = Ok([name |-> from_str(fmt(q)),
                         code |-> from_u32(<<Discriminants[q], 0>>)])
  /\ pc' = "round_trip_type"
  /\ UNCHANGED <<dmn, before, other, diff>>

NextQuorumType ==
  \/ ConvertCode
  \/ ConvertName
  \/ RoundTripType

SpecQuorumType == InitDecode /\ [][NextQuorumType]_vars

\* ------------------------------------------------------------------ handle_defaults
\* bound on the length of the enumerated argument lists and defaults tables
MaxArgs == 3

\* panic!(..) and a failed assert!(..)
panic(message) == Fail(ErrorValue("panic", None, None, <<message>>))

\* mutant: a null default is substituted like any other
loop_body_substitutes_null(st, defaults, i) ==
  LET args_i == Len(st.args) - 1 - i
      defaults_i == Len(defaults) - 1 - i
  IN  IF st.args[args_i + 1].kind = "null"
        THEN IF IsSome(st.first_non_null_optional_idx)
               THEN [st EXCEPT !.args[args_i + 1] = defaults[defaults_i + 1]]
               ELSE st
        ELSE IF st.first_non_null_optional_idx = None
          THEN [st EXCEPT !.first_non_null_optional_idx = Some(args_i)]
          ELSE st

\* the body of the for loop of handle_defaults at index i; indices are
\* 0-based as in the source and sequences 1-based
loop_body(st, defaults, i) ==
  LET args_i == Len(st.args) - 1 - i
      defaults_i == Len(defaults) - 1 - i
  IN  IF st.args[args_i + 1].kind = "null"
        THEN IF IsSome(st.first_non_null_optional_idx)
               THEN IF defaults[defaults_i + 1].kind = "null"
                      THEN [st EXCEPT !.panicked = TRUE]
                      ELSE [st EXCEPT !.args[args_i + 1] = defaults[defaults_i + 1]]
               ELSE st
        ELSE IF st.first_non_null_optional_idx = None
          THEN [st EXCEPT !.first_non_null_optional_idx = Some(args_i)]
          ELSE st

\* for i in 0..defaults.len(), stopped by a panic
RECURSIVE for_loop(_, _, _)
for_loop(st, defaults, i) ==
  IF i = Len(defaults) \/ st.panicked THEN st
  ELSE for_loop(loop_body(st, defaults, i), defaults, i + 1)

\* mutant: trailing null optional arguments are not trimmed
handle_defaults_keeps_trailing(args, defaults) ==
  IF Len(args) < Len(defaults) THEN panic("assertion failed")
  ELSE LET st == for_loop([args |-> args, first_non_null_optional_idx |-> None,
                           panicked |-> FALSE], defaults, 0)
       IN  IF st.panicked THEN panic("Missing default for argument")
           ELSE Ok(st.args)

\* mutant: required_num is taken to be defaults.len()
handle_defaults_required_is_defaults_len(args, defaults) ==
  IF Len(args) < Len(defaults) THEN panic("assertion failed")
  ELSE LET st == for_loop([args |-> args, first_non_null_optional_idx |-> None,
                           panicked |-> FALSE], defaults, 0)
           required_num == Len(defaults)
       IN  IF st.panicked THEN panic("Missing default for argument")
           ELSE IF IsSome(st.first_non_null_optional_idx)
             THEN Ok(SubSeq(st.args, 1, Unwrap(st.first_non_null_optional_idx) + 1))
           ELSE Ok(SubSeq(st.args, 1, required_num))

\* handle_defaults(args, defaults): the slice it returns, or the panic
handle_defaults(args, defaults) ==
  IF Len(args) < Len(defaults) THEN panic("assertion failed")
  ELSE LET st == for_loop([args |-> args, first_non_null_optional_idx |-> None,
                           panicked |-> FALSE], defaults, 0)
           required_num == Len(args) - Len(defaults)
       IN  IF st.panicked THEN panic("Missing default for argument")
           ELSE IF IsSome(st.first_non_null_optional_idx)
             THEN Ok(SubSeq(st.args, 1, Unwrap(st.first_non_null_optional_idx) + 1))
           ELSE Ok(SubSeq(st.args, 1, required_num))

\* opt_into_json(opt)
opt_into_json(opt) == IF opt = None THEN WireNull ELSE Unwrap(opt)

\* the texts "rotationinfo" and ""
RotationInfoText == WireStr("text", Bytes(12, 1))
EmptyText == WireStr("text", Bytes(0, 0))

\* the argument list get_quorum_rotationinfo hands to self.call
get_quorum_rotationinfo(block_request_hash, extra_share, base_block_hash) ==
  handle_defaults(<<RotationInfoText, block_request_hash, opt_into_json(extra_share),
                    opt_into_json(base_block_hash)>>,
                  <<WireBool(FALSE), EmptyText, WireNull>>)

\* the JSON values of the enumerated argument lists and defaults tables
ValueSamples == {WireNull, WireInt(One), WireBool(TRUE)}

RECURSIVE ValueLists(_)
ValueLists(n) ==
  IF n = 0 THEN {<<>>}
  ELSE LET shorter == ValueLists(n - 1)
       IN  shorter \cup {Append(l, v) : l \in shorter, v \in ValueSamples}

\* handle_defaults(&mut args, &defaults)
HandleDefaults ==
  /\ pc = "idle"
  /\ \E args \in ValueLists(MaxArgs) : \E defaults \in ValueLists(MaxArgs) :
       /\ wire' = [args |-> args, defaults |-> defaults]
       /\ decoded' = handle_defaults(args, defaults)
  /\ pc' = "handled_defaults"
  /\ UNCHANGED <<dmn, before, other, diff>>

\* self.get_quorum_rotationinfo(block_request_hash, extra_share,
\* base_block_hash), up to the argument list handed to self.call
GetQuorumRotationInfo ==
  /\ pc = "idle"
  /\ \E hash \in {WireHash(1), WireHash(2)} :
     \E extra_share \in {None, Some(WireBool(TRUE)), Some(WireBool(FALSE))} :
     \E base \in {None, Some(WireHash(1)), Some(WireHash(2))} :
       /\ wire' = [block_request_hash |-> hash, extra_share |-> extra_share,
                   base_block_hash |-> base]
       /\ decoded' = get_quorum_rotationinfo(hash, extra_share, base)
  /\ pc' = "called_rotationinfo"
  /\ UNCHANGED <<dmn, before, other, diff>>

NextClient ==
  \/ HandleDefaults
  \/ GetQuorumRotationInfo

SpecClient == InitDecode /\ [][NextClient]_vars

\* ------------------------------------------------------------------ helpers of the properties
\* the difference held in diff (defined when diff is Some)
D == Unwrap(diff)

\* slot f of difference d is set and carries the value s[f] of state s
SlotCarries(d, f, s) ==
  /\ IsSome(d[f])
  /\ IF f \in PlainFields \/ f \in TriSlots THEN Unwrap(d[f]) = s[f] ELSE d[f] = s[f]

\* ------------------------------------------------------------------ properties

\* C1: round trip. Applying to s1 the difference the differ returns for
\* (s1, s2), or nothing when it returns None, gives a state equal to s2 in
\* every attribute.
C1_RoundTrip ==
  pc = "round_trip" => \A f \in StateFields : dmn[f] = other[f]

\* C2: the differ (in either direction) returns None whenever no attribute
\* differs between the two states, in particular for compare(s, s).
C2_NoDifferenceWhenEqual ==
  (/\ pc \in {"compared_newer", "compared_older"}
   /\ \A f \in StateFields : dmn[f] = other[f])
  => diff = None

C2_Witness ==
  /\ pc = "compared_older"
  /\ dmn = other
  /\ dmn.pose_ban_height # None
  /\ diff = None

\* C3: apply_diff leaves untouched every attribute whose slot in the
\* difference is unchanged (None), the PoSe-revived height included.
C3_UnchangedSlotsKeepState ==
  pc = "applied" =>
    \A f \in StateFields : D[f] = None => dmn[f] = before[f]

\* C4: apply_diff overwrites every attribute whose slot in the difference is
\* set: after apply_diff the attribute equals the slot's value.
C4_SetSlotsOverwriteState ==
  pc = "applied" =>
    \A f \in StateFields : IsSome(D[f]) => SlotCarries(D, f, dmn)

\* C5: for the tri-state slots (PoSe-ban height, operator payout address) a
\* cleared slot leaves the attribute unset and a slot set(v) leaves it equal
\* to v, whatever the attribute was before.
C5_TriStateSlotsForce ==
  pc = "applied" =>
    \A f \in TriSlots :
      /\ D[f] = Some(None) => dmn[f] = None
      /\ \A v \in Vals : D[f] = Some(Some(v)) => dmn[f] = Some(v)

C5_Witness ==
  /\ pc = "applied"
  /\ D.pose_ban_height = Some(None)
  /\ before.pose_ban_height # None
  /\ dmn.pose_ban_height = None

\* C6: in a decoded difference, for each PoSe height key, an absent key and a
\* key present with value -1 decode to two distinct values.
C6_AbsentAndMinusOneDistinct ==
  (pc = "decoded_diff" /\ decoded.ok) =>
    \A k \in PoSeKeys :
      wire[k] = WireInt(MinusOne) =>
        decoded.val[SlotOf(k)] # diff_field(k, Absent).val

\* C7: in a decoded node state, a PoSe height of -1 decodes to None and every
\* N with 0 <= N <= 2^32-1 decodes to Some(N).
C7_StatePoSeDecode ==
  (pc = "decoded_state" /\ \A k \in PoSeKeys : wire[k].kind # "other") =>
    /\ decoded.ok
    /\ \A k \in PoSeKeys :
         /\ wire[k] = WireInt(MinusOne) => decoded.val[SlotOf(k)] = None
         /\ (wire[k].kind = "int" /\ wire[k].val[3] = 0 /\ wire[k].val[4] = 0) =>
              decoded.val[SlotOf(k)] = Some(<<wire[k].val[1], wire[k].val[2]>>)

C7_Witness ==
  /\ pc = "decoded_state"
  /\ wire.PoSeRevivedHeight = WireInt(<<LimbBase - 1, LimbBase - 1, 0, 0>>)
  /\ wire.PoSeBanHeight = WireInt(MinusOne)
  /\ decoded = Ok([pose_revived_height |-> Some(<<LimbBase - 1, LimbBase - 1>>),
                   pose_ban_height |-> None])

\* C8: a PoSe height wire value that is negative but not -1 makes the decode
\* fail; it is never decoded as unset or unchanged.
C8_MalformedSentinelFails ==
  pc \in {"decoded_state", "decoded_diff"} =>
    \A k \in PoSeKeys :
      (wire[k].kind = "int" /\ is_negative(wire[k].val) /\ wire[k].val # MinusOne)
        => ~decoded.ok

\* C9: in the difference returned for (older, newer) the slot of every
\* compared attribute is set to newer's value if and only if older's and
\* newer's values differ, also when newer's value of an optional attribute
\* is unset.
C9_SlotSetIffDiffers ==
  (pc = "compared_newer" /\ IsSome(diff)) =>
    \A f \in StateFields :
      IF dmn[f] # other[f]
        THEN IsSome(D[f]) /\ SlotCarries(D, f, other)
        ELSE D[f] = None

\* C10: a.compare_to_older_dmn_state(b) equals b.compare_to_newer_dmn_state(a),
\* and every set slot of the result carries the value of a, the newer state.
C10_OlderIsSwappedNewer ==
  pc = "compared_older" =>
    /\ diff = compare_to_newer_dmn_state(other, dmn)
    /\ IsSome(diff) =>
         \A f \in StateFields : IsSome(D[f]) => SlotCarries(D, f, dmn)

C10_Witness ==
  /\ pc = "compared_older"
  /\ IsSome(diff)
  /\ dmn.service # other.service
  /\ D.service = Some(dmn.service)

\* C11: in every difference the differ returns, the slots for last-paid
\* height, consecutive-payment count and PoSe penalty score are unchanged.
C11_UncomputedSlotsStayNone ==
  (pc \in {"compared_newer", "compared_older"} /\ IsSome(diff)) =>
    /\ D.last_paid_height = None
    /\ D.consecutive_payments = None
    /\ D.pose_penalty = None

C11_Witness ==
  /\ pc = "compared_newer"
  /\ IsSome(diff)
  /\ D.registered_height = Some(other.registered_height)
  /\ D.pose_penalty = None

\* the wire value is the text of an address, or of hex bytes for a platform
\* node id, whose payload is not 20 bytes long
BadLengthPayload(k, w) ==
  /\ w.kind = "str"
  /\ form_of(w.val) = (IF k = "platformNodeID" THEN "hex" ELSE "address")
  /\ bytes_of(w.val).len # AddressLen

\* an optional decoded address is unset or 20 bytes long
OptLen20(o) == IsSome(o) => Unwrap(o).len = AddressLen

\* the address-class fields of a decoded node state are 20 bytes long
StateAddresses20(s) ==
  /\ s.owner_address.len = AddressLen
  /\ s.voting_address.len = AddressLen
  /\ s.payout_address.len = AddressLen
  /\ OptLen20(s.operator_payout_address)
  /\ OptLen20(s.platform_node_id)

C18_ErrorsNameFieldAndValue ==
  (pc \in {"decoded_diff_object", "decoded_state_object"} /\ ~decoded.ok) =>
    /\ IsSome(decoded.val.field)
    /\ IsSome(decoded.val.raw)

\* C19: in a decoded state difference every slot whose key is absent from the
\* wire object is unchanged; a wire object with only a last-paid height and a
\* PoSe-revived height decodes to a difference with those two slots set and
\* every other slot unchanged.
C19_AbsentKeysAreUnchanged ==
  (pc = "decoded_diff_object" /\ decoded.ok) =>
    /\ \A k \in DiffKeys : wire[k] = Absent => decoded.val[KeySlot[k]] = None
    /\ (\A k \in WireDiffKeys :
          wire[k] = (IF k \in {"lastPaidHeight", "PoSeRevivedHeight"}
                       THEN WireInt(One) ELSE Absent))
       => decoded.val = [EmptyDiff EXCEPT !.last_paid_height = Some(<<1, 0>>),
                                          !.pose_revived_height = Some(<<1, 0>>)]

C19_Witness ==
  /\ pc = "decoded_diff_object"
  /\ wire = [EmptyWireDiff EXCEPT !.lastPaidHeight = WireInt(One),
                                  !.PoSeRevivedHeight = WireInt(One)]
  /\ decoded.ok
  /\ decoded.val.last_paid_height = Some(<<1, 0>>)
  /\ decoded.val.service = None

\* ------------------------------------------------------------------ registry differences
\* every map of the wire "updatedMNs" collection has exactly one entry
SingleEntryMaps(o) == \A i \in DOMAIN o.updatedMNs : Len(o.updatedMNs[i]) = 1

\* C12: when the wire "updatedMNs" collection is a sequence of N single-entry
\* maps, the decoded updated collection has exactly N pairs and its i-th pair
\* is the identity and the decoded difference of the i-th wire map.
C12_FlatteningKeepsOrder ==
  (pc = "decoded_list_diff" /\ decoded.ok /\ SingleEntryMaps(wire)) =>
    /\ Len(decoded.val.updated_mns) = Len(wire.updatedMNs)
    /\ \A i \in DOMAIN wire.updatedMNs :
         /\ decoded.val.updated_mns[i][1] = bytes_of(wire.updatedMNs[i][1][1].val)
         /\ decoded.val.updated_mns[i][2] = The(decode_diff(wire.updatedMNs[i][1][2]))

\* C12 witness: a decoded registry difference of two different single-entry maps
C12_Witness ==
  /\ pc = "decoded_list_diff"
  /\ decoded.ok
  /\ SingleEntryMaps(wire)
  /\ Len(wire.updatedMNs) >= 2
  /\ wire.updatedMNs[1] # wire.updatedMNs[2]

\* the identities of the three collections of a decoded registry difference
AddedIds(d) == {d.added_mns[i].pro_tx_hash : i \in DOMAIN d.added_mns}
RemovedIds(d) == {d.removed_mns[i] : i \in DOMAIN d.removed_mns}
UpdatedIds(d) == {d.updated_mns[i][1] : i \in DOMAIN d.updated_mns}

\* C13: every successfully decoded registry difference has pairwise disjoint
\* added, removed and updated identity sets, so a wire difference in which an
\* identity appears in two of the collections does not decode.
C13_IdentitySetsDisjoint ==
  (pc = "decoded_list_diff" /\ decoded.ok) =>
    /\ AddedIds(decoded.val) \cap RemovedIds(decoded.val) = {}
    /\ AddedIds(decoded.val) \cap UpdatedIds(decoded.val) = {}
    /\ RemovedIds(decoded.val) \cap UpdatedIds(decoded.val) = {}

\* some added entry, removed identity or updated entry of the wire registry
\* difference does not decode
ListDiffPartFails(o) ==
  \/ \E i \in DOMAIN o.addedMNs : Fails(decode_item(o.addedMNs[i]))
  \/ \E i \in DOMAIN o.removedMNs : ~deserialize_hash("removedMNs", o.removedMNs[i]).ok
  \/ \E i \in DOMAIN o.updatedMNs : \E j \in DOMAIN o.updatedMNs[i] :
       Fails(decode_entry(o.updatedMNs[i][j]))

\* some snapshot or difference of the wire rotation chain does not decode
RotationPartFails(o) ==
  \/ \E k \in SnapshotKeys : Fails(decode_snapshot(o[k]))
  \/ \E k \in MnDiffKeys : Fails(decode_masternode_diff(o[k]))
  \/ \E i \in DOMAIN o.quorumSnapshotList : Fails(decode_snapshot(o.quorumSnapshotList[i]))
  \/ \E i \in DOMAIN o.mnListDiffList : Fails(decode_masternode_diff(o.mnListDiffList[i]))

\* C15: decoding is all-or-nothing. When an added entry, a removed identity or
\* an updated entry of a registry difference, or a snapshot or a difference of
\* a rotation chain, does not decode, the decode of the whole object is an
\* error; a decode that succeeds holds every element of the wire collections.
C15_AllOrNothing ==
  /\ pc = "decoded_list_diff" =>
       /\ ListDiffPartFails(wire) => ~decoded.ok
       /\ decoded.ok =>
            /\ Len(decoded.val.added_mns) = Len(wire.addedMNs)
            /\ Len(decoded.val.removed_mns) = Len(wire.removedMNs)
  /\ pc = "decoded_rotation" =>
       /\ RotationPartFails(wire) => ~decoded.ok
       /\ decoded.ok =>
            /\ Len(decoded.val.quorum_snapshot_list) = Len(wire.quorumSnapshotList)
            /\ Len(decoded.val.mn_list_diff_list) = Len(wire.mnListDiffList)

\* C15 witness: a registry difference with an added entry that decodes and
\* another part that does not
C15_Witness ==
  /\ pc = "decoded_list_diff"
  /\ ListDiffPartFails(wire)
  /\ \E i \in DOMAIN wire.addedMNs : ~Fails(decode_item(wire.addedMNs[i]))
  /\ ~decoded.ok

\* ------------------------------------------------------------------ rotation chains
\* the wire differences of a wire rotation chain and the tags of their quorum entries
ChainDiffs(o) ==
  {o[k] : k \in MnDiffKeys} \cup {o.mnListDiffList[i] : i \in DOMAIN o.mnListDiffList}
TagsOf(d) ==
  {d.deletedQuorums[i].llmqType : i \in DOMAIN d.deletedQuorums}
    \cup {d.newQuorums[i].llmqType : i \in DOMAIN d.newQuorums}

\* a u32 code or a name that is not in the table of QuorumType
IsUnknownTag(w) ==
  \/ w.kind = "int" /\ w.val[3] = 0 /\ w.val[4] = 0
       /\ ~(w.val[2] = 0 /\ w.val[1] \in KnownCodes)
  \/ w.kind = "str" /\ form_of(w.val) = "name"
       /\ bytes_of(w.val).id \notin {DisplayArms[q] : q \in QuorumTypes \ {UNKNOWN}}

\* a tag that is neither a u32 nor a string that can be borrowed
IsMalformedTag(w) ==
  ~(\/ w.kind = "int" /\ w.val[3] = 0 /\ w.val[4] = 0
    \/ w.kind = "str" /\ form_of(w.val) = "name")

HasUnknownTag(o) == \E d \in ChainDiffs(o) : \E t \in TagsOf(d) : IsUnknownTag(t)
HasMalformedTag(o) == \E d \in ChainDiffs(o) : \E t \in TagsOf(d) : IsMalformedTag(t)

\* every part of the wire rotation chain is well formed, quorum types outside
\* the table apart
WellFormedButForTags(o) ==
  \A k \in RotationKeys :
    \/ o[k] = RotationBase[k]
    \/ k \in MnDiffKeys /\ o[k] \in UnknownTagDiffs
    \/ k = "mnListDiffList"
         /\ \A i \in DOMAIN o[k] : o[k][i] \in UnknownTagDiffs \cup {GoodMasternodeDiff}
    \/ k = "quorumSnapshotList" /\ \A i \in DOMAIN o[k] : o[k][i] = GoodSnapshot
    \/ k = "blockHashList" /\ o[k] = <<>>

\* the decoded quorum types of a decoded rotation chain
DecodedDiffs(v) ==
  {v.mn_list_diff_tip, v.mn_list_diff_h, v.mn_list_diff_at_h_minus_c,
   v.mn_list_diff_at_h_minus_2c, v.mn_list_diff_at_h_minus_3c}
    \cup {v.mn_list_diff_list[i] : i \in DOMAIN v.mn_list_diff_list}
DecodedTypes(d) ==
  {d.deleted_quorums[i].llmq_type : i \in DOMAIN d.deleted_quorums}
    \cup {d.new_quorums[i].llmq_type : i \in DOMAIN d.new_quorums}

C20_HistoryListsAligned ==
  (pc = "decoded_rotation" /\ decoded.ok) =>
    Len(decoded.val.quorum_snapshot_list) = Len(decoded.val.mn_list_diff_list)

\* ------------------------------------------------------------------ chains and repeated application
\* C21: applying in order the differences between the consecutive states of a
\* chain s0, s1, .., sn, starting from s0, ends in a state equal to sn.
C21_ChainReconstructs ==
  pc = "chained" => dmn = other

\* C25: a difference the differ returns has at least one slot that is not
\* unchanged.
C25_ReturnedDifferenceNotEmpty ==
  (pc = "compared_newer" /\ IsSome(diff)) => \E f \in DiffSlots : D[f] # None

\* C26: applying a difference a second time leaves the state as the first
\* application left it.
C26_ApplyIdempotent ==
  pc = "applied_twice" => dmn = before

\* C26 witness: a second application after a first one that changed the state
C26_Witness ==
  /\ pc = "applied_twice"
  /\ \E f \in DiffSlots : D[f] # None
  /\ \E s \in InitStates : s # dmn /\ apply_diff(s, D) = dmn

\* ------------------------------------------------------------------ decoded heights and slots
\* a non-negative i64 that does not fit a u32
AboveU32(v) == ~is_negative(v) /\ (v[3] # 0 \/ v[4] # 0)

\* C27: a PoSe height wire value above 2^32-1 is rejected or decoded to
\* exactly that value, never to the value reduced modulo 2^32.
C27_LargeHeightNotReduced ==
  pc \in {"decoded_state", "decoded_diff"} =>
    \A k \in PoSeKeys :
      (wire[k].kind = "int" /\ AboveU32(wire[k].val) /\ decoded.ok) =>
        LET h == as_u32(wire[k].val)
        IN  /\ <<h[1], h[2], 0, 0>> = wire[k].val
            /\ IF pc = "decoded_diff" /\ k = "PoSeBanHeight"
                  THEN decoded.val[SlotOf(k)] = Some(Some(h))
                  ELSE decoded.val[SlotOf(k)] = Some(h)

\* C28: a state difference decoded from a wire object has its
\* operator_payout_address slot unchanged (None), whatever the wire object
\* holds under any key.
C28_DecodedOperatorPayoutUnchanged ==
  (pc = "decoded_diff_object" /\ decoded.ok) =>
    decoded.val.operator_payout_address = None

\* C28 witness: a decoded wire difference that carries a well-formed address
\* under "operatorPayoutAddress"
C28_Witness ==
  /\ pc = "decoded_diff_object"
  /\ decoded.ok
  /\ wire.operatorPayoutAddress = WireStr("address", Bytes(AddressLen, 1))

\* ------------------------------------------------------------------ QuorumType mapping
\* C24: for every QuorumType q, From<&str> of its display name is q and
\* From<u32> of its discriminant is q; every name and every number outside
\* the table converts to UNKNOWN.
C24_QuorumTypeMappingBidirectional ==
  /\ pc = "round_trip_type" =>
       /\ decoded.val.name = wire.variant
       /\ decoded.val.code = wire.variant
  /\ pc = "converted_code" =>
       (~(wire.val[2] = 0 /\ wire.val[1] \in KnownCodes) => decoded.val = UNKNOWN)
  /\ pc = "converted_name" =>
       (bytes_of(wire.val).id \notin {DisplayArms[q] : q \in QuorumTypes \ {UNKNOWN}}
          => decoded.val = UNKNOWN)

\* C24 witness: the round trip of LlmqSingleNode, whose name does not follow
\* the variant's
C24_Witness ==
  /\ pc = "round_trip_type"
  /\ wire.variant = "LlmqSingleNode"
  /\ decoded.val.name = "LlmqSingleNode"
  /\ decoded.val.code = "LlmqSingleNode"

\* ------------------------------------------------------------------ argument lists
\* the arguments and the defaults table of the last handle_defaults, the
\* number of required arguments, and the position of the last optional
\* argument that is not null (the number of required ones when there is none)
Args == wire.args
Defaults == wire.defaults
RequiredNum == Len(Args) - Len(Defaults)
IsNull(v) == v.kind = "null"
LastNonNull ==
  LET set == {j \in RequiredNum + 1 .. Len(Args) : ~IsNull(Args[j])}
  IN  IF set = {} THEN RequiredNum ELSE CHOOSE j \in set : \A l \in set : l <= j
Returned == pc = "handled_defaults" /\ decoded.ok

\* C22: the list handle_defaults returns is the prefix of args that ends at
\* the last optional argument that is not null, with every null optional
\* argument before it replaced by its default; trailing null optional
\* arguments are left out.
C22_SubstitutesAndTrims ==
  Returned =>
    /\ Len(decoded.val) = LastNonNull
    /\ \A j \in 1..LastNonNull :
         decoded.val[j] = IF j > RequiredNum /\ IsNull(Args[j])
                            THEN Defaults[j - RequiredNum] ELSE Args[j]

\* C22 witness: a returned list in which a default was substituted and a
\* trailing null was left out
C22_Witness ==
  /\ Returned
  /\ LastNonNull < Len(Args)
  /\ \E j \in RequiredNum + 1 .. LastNonNull : IsNull(Args[j])

\* C23: the list handle_defaults returns has at least the n-k required
\* arguments and its first n-k elements are those of args unchanged, null or
\* not; when every optional argument is null it is exactly those elements.
C23_RequiredArgumentsKept ==
  Returned =>
    /\ Len(decoded.val) >= RequiredNum
    /\ \A j \in 1..RequiredNum : decoded.val[j] = Args[j]
    /\ (\A j \in RequiredNum + 1 .. Len(Args) : IsNull(Args[j])) =>
         decoded.val = SubSeq(Args, 1, RequiredNum)

\* C23 witness: a returned list with a null required argument and only null
\* optional arguments
C23_Witness ==
  /\ Returned
  /\ RequiredNum >= 1
  /\ Len(Defaults) >= 1
  /\ IsNull(Args[1])
  /\ \A j \in RequiredNum + 1 .. Len(Args) : IsNull(Args[j])

\* C29: a list handle_defaults returns has no null in an optional position,
\* and handle_defaults panics when a null optional argument whose default is
\* null precedes an optional argument that is not null.
C29_NoNullOptionalReturned ==
  pc = "handled_defaults" =>
    /\ decoded.ok =>
         \A j \in RequiredNum + 1 .. Len(decoded.val) : ~IsNull(decoded.val[j])
    /\ (/\ Len(Args) >= Len(Defaults)
        /\ \E j \in RequiredNum + 1 .. LastNonNull :
             IsNull(Args[j]) /\ IsNull(Defaults[j - RequiredNum]))
         => ~decoded.ok

\* C29 witness: a panic for a null optional argument with a null default
C29_Witness ==
  /\ pc = "handled_defaults"
  /\ Len(Args) >= Len(Defaults)
  /\ \E j \in RequiredNum + 1 .. LastNonNull :
       IsNull(Args[j]) /\ IsNull(Defaults[j - RequiredNum])
  /\ ~decoded.ok

\* C30: get_quorum_rotationinfo called without extra_share and with a
\* base_block_hash hands self.call the list "rotationinfo",
\* block_request_hash, false, base_block_hash.
C30_OmittedExtraShareIsFalse ==
  (/\ pc = "called_rotationinfo"
   /\ wire.extra_share = None
   /\ IsSome(wire.base_block_hash)) =>
    decoded = Ok(<<RotationInfoText, wire.block_request_hash, WireBool(FALSE),
                   Unwrap(wire.base_block_hash)>>)

====
